---- MODULE Spec2Model ----
(***************************************************************************)
(* Model of src/model_status.py: the ALCF endpoint status script.          *)
(*                                                                         *)
(* The script is one sequential module body.  A state of the model is the  *)
(* script's module-level variables plus its position (pc).  Strings that   *)
(* the script inspects (names, statuses, URLs) are sequences of one        *)
(* character strings, so that split, strip, lower and formatting are       *)
(* computed as Python computes them.  JSON values carry a type tag: null,  *)
(* strings, integers, lists and dicts (booleans and floats are not         *)
(* represented).  An operation that raises in Python is a predicate of its *)
(* own (...Raises) next to the operator that gives the value it returns    *)
(* when it does not raise.                                                 *)
(***************************************************************************)
EXTENDS Integers, Sequences, FiniteSets, TLC

VARIABLES
    pc,                 \* position in the module body
    liveOnly,           \* args.live_only
    verbose,            \* VERBOSE
    accessToken,        \* TRUE once a credential is held
    exitCode,           \* process exit code, -1 while running
    requests,           \* URLs requested so far, in order (requests.get calls)
    guessFieldsBound,   \* TRUE once "def guessFields" (line 316) has executed
    candIdx,            \* loop index of getAvailableModels (0-based)
    allModels,          \* getAvailableModels' accumulator
    respData,           \* getAvailableModels' local data: the body being read
    respModels,         \* getAvailableModels' local models: that body's records
    availableModels,    \* its return value
    jobs,               \* body of the jobs response
    endpoints,          \* body of the catalog response of line 270
    uniqueModels,       \* insertion-ordered dict name -> record, as a sequence
    jobItems,           \* the elements "for it in jobItems" visits, in order
    activeCount,        \* number of job records counted (diagnostic)
    jobIdx,             \* loop index of the classification loop (0-based)
    activeModels,       \* bucket lists, in insertion order, with repeats
    startingModels,
    queuedModels,
    it,                 \* the classification loop's variables (module globals)
    name,
    status,
    totalActive,        \* the printed "Active models" count, -1 before
    listing             \* the printed model lines: <<name, status>> pairs

argVars    == << liveOnly, verbose >>
catVars    == << candIdx, allModels, respData, respModels, availableModels >>
fetchVars  == << jobs, endpoints >>
jobVars    == << jobItems, activeCount, jobIdx >>
bucketVars == << activeModels, startingModels, queuedModels >>
loopVars   == << it, name, status >>
outVars    == << totalActive, listing >>

vars == << pc, argVars, accessToken, exitCode, requests, guessFieldsBound,
           catVars, fetchVars, uniqueModels, jobVars, bucketVars, loopVars,
           outVars >>

----------------------------------------------------------------------------
(* Characters and strings *)

\* The characters the model's strings are written in, in code point order
\* (Python compares and sorts str by code point): U+0001 to U+007F without
\* the grave accent, then U+0085 and U+00A0.  A string literal of the
\* language cannot hold the grave accent or a character above U+00FF.
CharOrder ==
    << "", "", "", "", "", "", "", "", "\t", "\n",
       "", "\f", "\r", "", "", "", "", "", "", "",
       "", "", "", "", "", "", "", "", "", "",
       "", " ", "!", "\"", "#", "$", "%", "&", "'", "(",
       ")", "*", "+", ",", "-", ".", "/", "0", "1", "2",
       "3", "4", "5", "6", "7", "8", "9", ":", ";", "<",
       "=", ">", "?", "@", "A", "B", "C", "D", "E", "F",
       "G", "H", "I", "J", "K", "L", "M", "N", "O", "P",
       "Q", "R", "S", "T", "U", "V", "W", "X", "Y", "Z",
       "[", "\\", "]", "^", "_", "a", "b", "c", "d", "e",
       "f", "g", "h", "i", "j", "k", "l", "m", "n", "o",
       "p", "q", "r", "s", "t", "u", "v", "w", "x", "y",
       "z", "{", "|", "}", "~", "", "", " " >>

Ord(c) == CHOOSE i \in 1..Len(CharOrder) : CharOrder[i] = c

\* ord(c)
CodePoint(c) ==
    LET i == Ord(c)
    IN  IF i < 96 THEN i
        ELSE IF i <= 126 THEN i + 1
        ELSE IF i = 127 THEN 133
        ELSE 160

UpperChars == << "A", "B", "C", "D", "E", "F", "G", "H", "I", "J", "K", "L", "M",
                 "N", "O", "P", "Q", "R", "S", "T", "U", "V", "W", "X", "Y", "Z" >>

LowerChars == << "a", "b", "c", "d", "e", "f", "g", "h", "i", "j", "k", "l", "m",
                 "n", "o", "p", "q", "r", "s", "t", "u", "v", "w", "x", "y", "z" >>

\* str.lower(), one character
LowerChar(c) ==
    IF \E i \in 1..Len(UpperChars) : UpperChars[i] = c
    THEN LowerChars[CHOOSE i \in 1..Len(UpperChars) : UpperChars[i] = c]
    ELSE c

\* str.lower()
Lower(s) == [i \in 1..Len(s) |-> LowerChar(s[i])]

\* the characters str.strip() removes, of those the model writes strings in:
\* the code points 9 to 13, 28 to 32, U+0085 and U+00A0
Whitespace ==
    { "\t", "\n", "", "\f", "\r", "", "", "", "", " ",
      "", " " }

RECURSIVE LStrip(_)
LStrip(s) ==
    IF s # <<>> /\ Head(s) \in Whitespace THEN LStrip(Tail(s)) ELSE s

RECURSIVE RStripSet(_, _)
RStripSet(s, chars) ==
    IF s # <<>> /\ s[Len(s)] \in chars
    THEN RStripSet(SubSeq(s, 1, Len(s) - 1), chars)
    ELSE s

\* str.strip()
Strip(s) == RStripSet(LStrip(s), Whitespace)

\* "," in s
HasComma(s) == \E i \in 1..Len(s) : s[i] = ","

\* sub in s, both str
Substring(sub, s) ==
    \E i \in 0..(Len(s) - Len(sub)) : SubSeq(s, i + 1, i + Len(sub)) = sub

\* s.split(','): every comma separates, empty pieces are kept
RECURSIVE Split(_)
Split(s) ==
    IF ~HasComma(s) THEN << s >>
    ELSE LET k == CHOOSE i \in 1..Len(s) :
                      s[i] = "," /\ \A j \in 1..(i - 1) : s[j] # ","
         IN  << SubSeq(s, 1, k - 1) >> \o Split(SubSeq(s, k + 1, Len(s)))

DigitChars == << "0", "1", "2", "3", "4", "5", "6", "7", "8", "9" >>

HexChars == DigitChars \o << "a", "b", "c", "d", "e", "f" >>

\* str(n) for n >= 0
RECURSIVE Decimal(_)
Decimal(n) ==
    IF n < 10 THEN << DigitChars[n + 1] >>
    ELSE Decimal(n \div 10) \o << DigitChars[(n % 10) + 1] >>

\* str(n) for an int
IntStr(n) == IF n < 0 THEN << "-" >> \o Decimal(0 - n) ELSE Decimal(n)

\* a < b for str
RECURSIVE StrLess(_, _)
StrLess(a, b) ==
    IF b = <<>> THEN FALSE
    ELSE IF a = <<>> THEN TRUE
    ELSE IF Head(a) = Head(b) THEN StrLess(Tail(a), Tail(b))
    ELSE Ord(Head(a)) < Ord(Head(b))

\* the characters repr() writes as an escape: the C0 controls and U+007F
ControlChars ==
    << "", "", "", "", "", "", "", "", "\t", "\n",
       "", "\f", "\r", "", "", "", "", "", "", "",
       "", "", "", "", "", "", "", "", "", "",
       "", "" >>

\* one character of repr(s), inside the given quote
ReprChar(c, quote) ==
    IF c = "\\" THEN << "\\", "\\" >>
    ELSE IF c = quote THEN << "\\", c >>
    ELSE IF c = "\t" THEN << "\\", "t" >>
    ELSE IF c = "\n" THEN << "\\", "n" >>
    ELSE IF c = "\r" THEN << "\\", "r" >>
    ELSE IF (\E i \in 1..Len(ControlChars) : ControlChars[i] = c)
            \/ CodePoint(c) > 127
    THEN << "\\", "x", HexChars[(CodePoint(c) \div 16) + 1],
            HexChars[(CodePoint(c) % 16) + 1] >>
    ELSE << c >>

RECURSIVE Flatten(_)
Flatten(ss) == IF ss = <<>> THEN <<>> ELSE Head(ss) \o Flatten(Tail(ss))

\* repr(s) for a str: single quotes, unless s holds one and no double quote
ReprStr(s) ==
    LET has(c) == \E i \in 1..Len(s) : s[i] = c
        quote  == IF has("'") /\ ~has("\"") THEN "\"" ELSE "'"
    IN  << quote >> \o Flatten([i \in 1..Len(s) |-> ReprChar(s[i], quote)])
            \o << quote >>

\* sep.join(parts)
RECURSIVE Join(_, _)
Join(parts, sep) ==
    IF parts = <<>> THEN <<>>
    ELSE IF Len(parts) = 1 THEN parts[1]
    ELSE parts[1] \o sep \o Join(Tail(parts), sep)


\* the characters of a dict key: a key is a string of the language, and its
\* characters are its substrings of length one
KeyText(key) == [i \in 1..Len(key) |-> SubSeq(key, i, i)]

----------------------------------------------------------------------------
(* JSON values: [t |-> tag, v |-> payload] *)

Null == [t |-> "null", v |-> <<>>]
Str(s) == [t |-> "str", v |-> s]
Num(n) == [t |-> "num", v |-> n]
List(l) == [t |-> "list", v |-> l]
Dict(d) == [t |-> "dict", v |-> d]

EmptyDict == Dict(<<>>)

\* a name no value is bound to yet
Unbound == [t |-> "unbound", v |-> <<>>]

\* A dict's payload is the sequence of its <<key, value>> pairs in document
\* order (Python dicts iterate in insertion order); keys are unique.
Keys(d) == {d.v[i][1] : i \in 1..Len(d.v)}

\* Python truth value
Truthy(x) ==
    CASE x.t = "null" -> FALSE
      [] x.t = "str"  -> x.v # <<>>
      [] x.t = "num"  -> x.v # 0
      [] x.t = "list" -> x.v # <<>>
      [] x.t = "dict" -> x.v # <<>>

\* a or b
Or(a, b) == IF Truthy(a) THEN a ELSE b

\* isinstance(x, list) / isinstance(x, str) / isinstance(x, dict)
IsList(x) == x.t = "list"
IsStr(x) == x.t = "str"
IsDict(x) == x.t = "dict"

\* key in d, d a dict
HasKey(d, key) == key \in Keys(d)

\* d.get(key, default), d a dict
GetOr(d, key, default) ==
    IF key \in Keys(d)
    THEN d.v[CHOOSE i \in 1..Len(d.v) : d.v[i][1] = key][2]
    ELSE default

\* d.get(key), d a dict
Get(d, key) == GetOr(d, key, Null)

\* x.get, x.items() and x.keys() raise AttributeError unless x is a dict
NoDictMethods(x) == ~IsDict(x)

\* "key in x" raises TypeError: None and numbers are not iterable
InRaises(x) == x.t \in {"null", "num"}

\* key in x: a key test on a dict, an element test on a list, a substring
\* test on a str
In(key, x) ==
    CASE IsDict(x) -> HasKey(x, key)
      [] IsList(x) -> \E i \in 1..Len(x.v) : x.v[i] = Str(KeyText(key))
      [] IsStr(x)  -> Substring(KeyText(key), x.v)

\* x[key] raises: a list or a str is not indexed by a str (TypeError), a
\* dict without the key has no such item (KeyError)
ItemRaises(x, key) == ~IsDict(x) \/ ~HasKey(x, key)

\* len(x) raises TypeError on None and on a number
LenRaises(x) == x.t \in {"null", "num"}

\* len(x): characters of a str, elements of a list, keys of a dict
PyLen(x) == Len(x.v)

\* hash(x) raises TypeError on a list and on a dict
Unhashable(x) == x.t \in {"list", "dict"}

\* repr(x)
RECURSIVE Repr(_)
Repr(x) ==
    CASE x.t = "str"  -> ReprStr(x.v)
      [] x.t = "num"  -> IntStr(x.v)
      [] x.t = "null" -> << "N", "o", "n", "e" >>
      [] x.t = "list" ->
             << "[" >> \o Join([i \in 1..Len(x.v) |-> Repr(x.v[i])],
                              << ",", " " >>) \o << "]" >>
      [] x.t = "dict" ->
             << "{" >>
                 \o Join([i \in 1..Len(x.v) |->
                             ReprStr(KeyText(x.v[i][1])) \o << ":", " " >>
                                 \o Repr(x.v[i][2])],
                         << ",", " " >>)
                 \o << "}" >>

\* str(x) as an f-string renders it
PyStr(x) == IF IsStr(x) THEN x.v ELSE Repr(x)

----------------------------------------------------------------------------
(* guessFields, lines 316-351 *)

StartingLit == << "S", "t", "a", "r", "t", "i", "n", "g" >>
OthersOpen  == << " ", "(", "+" >>
OthersClose == << " ", "o", "t", "h", "e", "r", "s", ")" >>
OnLit       == << " ", "o", "n", " " >>

\* line 318
DirectName(item) ==
    Or(Or(Or(Get(item, "model"), Get(item, "name")), Get(item, "endpoint")),
       Get(item, "id"))

\* line 319
DirectStatus(item) ==
    Or(Or(Or(Get(item, "status"), Get(item, "state")),
          Get(item, "endpoint_status")),
       Get(item, "lifecycle"))

\* line 322: the job-shape fallback applies
JobShape(item) == ~Truthy(DirectName(item)) /\ HasKey(item, "Models")

\* a fallback that names a job by the first model of any non-empty list
JobShapeNameFirstOnly(item) ==
    LET models    == Get(item, "Models")
        framework == GetOr(item, "Framework", Str(<<>>))
        cluster   == GetOr(item, "Cluster", Str(<<>>))
    IN  IF IsList(models) /\ Truthy(models)
        THEN models.v[1]
        ELSE IF IsStr(models)
             THEN models
             ELSE IF Truthy(framework) /\ Truthy(cluster)
                  THEN Str(PyStr(framework) \o OnLit \o PyStr(cluster))
                  ELSE Null

\* lines 323-336: the name the job-shape fallback resolves
JobShapeName(item) ==
    LET models    == Get(item, "Models")
        framework == GetOr(item, "Framework", Str(<<>>))
        cluster   == GetOr(item, "Cluster", Str(<<>>))
    IN  IF IsList(models) /\ Truthy(models)
        THEN IF Len(models.v) = 1
             THEN models.v[1]
             ELSE Str(PyStr(models.v[1]) \o OthersOpen
                      \o Decimal(Len(models.v) - 1) \o OthersClose)
        ELSE IF IsStr(models)
             THEN models
             ELSE IF Truthy(framework) /\ Truthy(cluster)
                  THEN Str(PyStr(framework) \o OnLit \o PyStr(cluster))
                  ELSE Null

\* lines 339-345: the status the job-shape fallback resolves
JobShapeStatus(item) ==
    IF ~Truthy(DirectStatus(item))
    THEN IF HasKey(item, "Estimated Start Time")
         THEN Str(StartingLit)
         ELSE Or(Get(item, "Model Status"), Get(item, "Job State"))
    ELSE DirectStatus(item)

\* the name guessFields returns: a JSON value
GuessName(item) ==
    IF JobShape(item) THEN JobShapeName(item) ELSE DirectName(item)

\* the status value line 351 reads
FoundStatus(item) ==
    IF JobShape(item) THEN JobShapeStatus(item) ELSE DirectStatus(item)

\* guessFields raises AttributeError: item is no dict (line 318), or the
\* status found is a non-empty value that is no str (line 351, .strip())
GuessRaises(item) ==
    \/ NoDictMethods(item)
    \/ Truthy(FoundStatus(item)) /\ ~IsStr(FoundStatus(item))

\* the status guessFields returns: a str, line 351
GuessStatus(item) == Str(Strip(Or(FoundStatus(item), Str(<<>>)).v))

guessFields(item) == << GuessName(item), GuessStatus(item) >>

----------------------------------------------------------------------------
(* getAvailableModels, lines 160-242: one response body to ModelRecords *)

\* "https://inference-api.alcf.anl.gov", line 186
Host == << "h", "t", "t", "p", "s", ":", "/", "/", "i", "n", "f", "e", "r",
           "e", "n", "c", "e", "-", "a", "p", "i", ".", "a", "l", "c", "f",
           ".", "a", "n", "l", ".", "g", "o", "v" >>

UnknownLit == << "U", "n", "k", "n", "o", "w", "n" >>

\* lines 133-137, inside safeGet's try: len(data['items']) raises TypeError
\* when a dict body holds null or a number under items; line 155 re-raises
SafeGetRaises(body) ==
    IsDict(body) /\ HasKey(body, "items") /\ LenRaises(Get(body, "items"))

\* the items of a list that are dicts, in order
RECURSIVE DictItems(_)
DictItems(l) ==
    IF l = <<>> THEN <<>>
    ELSE (IF IsDict(Head(l)) THEN << Head(l) >> ELSE <<>>) \o DictItems(Tail(l))

ModelRecord(n, c, f, u, src) ==
    [name |-> n, cluster |-> c, framework |-> f, chat_url |-> u, source |-> src]

\* what reading a part of a body gives: the records appended to models, and
\* whether an exception ended the reading
Result(raised, ms) == [raised |-> raised, models |-> ms]
Raised == Result(TRUE, <<>>)
Returned(ms) == Result(FALSE, ms)

\* parts read one after the other until one raises
RECURSIVE ReadAll(_)
ReadAll(parts) ==
    IF parts = <<>> THEN Returned(<<>>)
    ELSE IF Head(parts).raised THEN Head(parts)
    ELSE LET rest == ReadAll(Tail(parts))
         IN  Result(rest.raised, Head(parts).models \o rest.models)

\* line 185: endpoints.get raises AttributeError when the framework's
\* endpoints value is no dict
ChatUrlRaises(frameworkInfo) ==
    NoDictMethods(GetOr(frameworkInfo, "endpoints", EmptyDict))

\* lines 183-186
ChatUrl(clusterInfo, frameworkInfo) ==
    LET baseUrl      == GetOr(clusterInfo, "base_url", Str(<<>>))
        endpointsMap == GetOr(frameworkInfo, "endpoints", EmptyDict)
        chatEndpoint == GetOr(endpointsMap, "chat", Str(<<>>))
    IN  IF Truthy(chatEndpoint)
        THEN Str(RStripSet(Host \o PyStr(baseUrl) \o PyStr(chatEndpoint), {"/"}))
        ELSE Null

\* lines 181-193: one framework of a cluster (clusterInfo is a dict here)
FrameworkRecords(clusterName, clusterInfo, frameworkName, frameworkInfo) ==
    IF InRaises(frameworkInfo) THEN Raised
    ELSE IF ~In("models", frameworkInfo) THEN Returned(<<>>)
    ELSE IF ItemRaises(frameworkInfo, "models") THEN Raised
    ELSE LET models == Get(frameworkInfo, "models")
         IN  IF ~IsList(models) \/ models.v = <<>> THEN Returned(<<>>)
             ELSE IF ChatUrlRaises(frameworkInfo) THEN Raised
             ELSE Returned([i \in 1..Len(models.v) |->
                      ModelRecord(models.v[i], clusterName, frameworkName,
                                  ChatUrl(clusterInfo, frameworkInfo),
                                  "clusters")])

\* lines 179-193: one cluster
ClusterRecords(clusterName, clusterInfo) ==
    IF InRaises(clusterInfo) THEN Raised
    ELSE IF ~In("frameworks", clusterInfo) THEN Returned(<<>>)
    ELSE IF ItemRaises(clusterInfo, "frameworks") THEN Raised
    ELSE LET frameworks == Get(clusterInfo, "frameworks")
         IN  IF NoDictMethods(frameworks) THEN Raised
             ELSE ReadAll([j \in 1..Len(frameworks.v) |->
                      FrameworkRecords(clusterName, clusterInfo,
                                       frameworks.v[j][1], frameworks.v[j][2])])

\* lines 178-193, for a dict body with the key clusters
ClustersRecords(data) ==
    LET clusters == Get(data, "clusters")
    IN  IF NoDictMethods(clusters) THEN Raised
        ELSE ReadAll([i \in 1..Len(clusters.v) |->
                 ClusterRecords(clusters.v[i][1], clusters.v[i][2])])

\* lines 196-205
EndpointsRecords(data) ==
    LET items == DictItems(Get(data, "endpoints").v)
    IN  [i \in 1..Len(items) |->
            ModelRecord(GetOr(items[i], "model",
                              GetOr(items[i], "name", Str(UnknownLit))),
                        "default", "default", Null, "endpoints")]

\* lines 208-217
DataRecords(data) ==
    LET items == DictItems(Get(data, "data").v)
    IN  [i \in 1..Len(items) |->
            ModelRecord(GetOr(items[i], "id",
                              GetOr(items[i], "name", Str(UnknownLit))),
                        "default", "default", Null, "data")]

\* lines 222-230: one dict item of a list body.  bound: whether the name
\* guessFields is bound when line 222 runs (NameError when it is not)
DirectItemRecords(item, bound) ==
    IF ~bound \/ GuessRaises(item) THEN Raised
    ELSE IF Truthy(GuessName(item))
    THEN Returned(<< ModelRecord(GuessName(item), "default", "default", Null,
                                 "direct_list") >>)
    ELSE Returned(<<>>)

\* lines 220-230
DirectListRecords(items, bound) ==
    ReadAll([i \in 1..Len(items) |-> DirectItemRecords(items[i], bound)])

\* a dispatch that moves on to the next shape when one yields no record
NormalizeBodyFallThrough(data, bound) ==
    IF ~IsDict(data) THEN Returned(<<>>)
    ELSE IF HasKey(data, "clusters") /\ IsDict(Get(data, "clusters"))
            /\ ClustersRecords(data).models # <<>>
    THEN ClustersRecords(data)
    ELSE IF HasKey(data, "endpoints") /\ IsList(Get(data, "endpoints"))
            /\ EndpointsRecords(data) # <<>>
    THEN Returned(EndpointsRecords(data))
    ELSE IF HasKey(data, "data") /\ IsList(Get(data, "data"))
    THEN Returned(DataRecords(data))
    ELSE Returned(<<>>)

\* a dispatch that makes up a record for a body of no known shape
NormalizeBodyDefaultRecord(data, bound) ==
    IF InRaises(data) THEN Raised
    ELSE IF In("clusters", data)
    THEN IF ItemRaises(data, "clusters") THEN Raised
         ELSE ClustersRecords(data)
    ELSE IF In("endpoints", data) /\ ItemRaises(data, "endpoints")
    THEN Raised
    ELSE IF In("endpoints", data) /\ IsList(Get(data, "endpoints"))
    THEN Returned(EndpointsRecords(data))
    ELSE IF In("data", data) /\ ItemRaises(data, "data")
    THEN Raised
    ELSE IF In("data", data) /\ IsList(Get(data, "data"))
    THEN Returned(DataRecords(data))
    ELSE IF IsList(data)
    THEN DirectListRecords(DictItems(data.v), bound)
    ELSE Returned(<< ModelRecord(Str(UnknownLit), "default", "default", Null,
                                 "unknown") >>)

\* lines 174-230: the records one body appends to models, and whether reading
\* it raises (the except of line 238 then drops them).
\*   line 176: "clusters" in data raises TypeError on null and on a number;
\*   lines 178, 194, 206: data[...] raises TypeError on a str or a list that
\*   holds the key's text.
\* bound: whether the name guessFields is bound when line 222 runs.
NormalizeBody(data, bound) ==
    IF InRaises(data) THEN Raised
    ELSE IF In("clusters", data)
    THEN IF ItemRaises(data, "clusters") THEN Raised
         ELSE ClustersRecords(data)
    ELSE IF In("endpoints", data) /\ ItemRaises(data, "endpoints")
    THEN Raised
    ELSE IF In("endpoints", data) /\ IsList(Get(data, "endpoints"))
    THEN Returned(EndpointsRecords(data))
    ELSE IF In("data", data) /\ ItemRaises(data, "data")
    THEN Raised
    ELSE IF In("data", data) /\ IsList(Get(data, "data"))
    THEN Returned(DataRecords(data))
    ELSE IF IsList(data)
    THEN DirectListRecords(DictItems(data.v), bound)
    ELSE Returned(<<>>)

\* lines 232-236: what the body adds to allModels
BodyRecords(data, bound) ==
    IF NormalizeBody(data, bound).raised THEN <<>>
    ELSE NormalizeBody(data, bound).models

----------------------------------------------------------------------------
(* Diagnostics of the fetched bodies, lines 256-266 and 273-314 *)

\* line 261: jobs['items'][0].keys() raises unless the first element of
\* items is a dict: a str or a list of other things has no keys
\* (AttributeError), a dict has no item 0 (KeyError)
FirstItemKeysRaises(items) == ~(IsList(items) /\ IsDict(items.v[1]))

\* lines 256-261
JobsDiagRaises(body) ==
    /\ IsDict(body)
    /\ HasKey(body, "items")
    /\ \/ LenRaises(Get(body, "items"))
       \/ Truthy(Get(body, "items")) /\ FirstItemKeysRaises(Get(body, "items"))

\* what the diagnostics of the catalog body give: whether they raise, and
\* the value they leave in the module global status (lines 284 and 307)
Diag(raised, st) == [raised |-> raised, status |-> st]

\* line 311
statusFields == << "running", "active", "live", "online", "available" >>

\* lines 283-284 and 306-307: status = info.get('status') or info.get('state')
StatusAfter(info, st) ==
    IF HasKey(info, "status") \/ HasKey(info, "state")
    THEN Or(Get(info, "status"), Get(info, "state"))
    ELSE st

\* lines 283-303, one framework: a str or a list that holds one of the
\* tested keys has no get and is not indexed by a str
FrameworkDiag(frameworkInfo, st) ==
    IF InRaises(frameworkInfo) THEN Diag(TRUE, st)
    ELSE IF ~IsDict(frameworkInfo)
    THEN Diag(\E key \in {"status", "state", "endpoints", "models"} :
                  In(key, frameworkInfo), st)
    ELSE Diag(FALSE, StatusAfter(frameworkInfo, st))

RECURSIVE FrameworksDiag(_, _)
FrameworksDiag(frameworks, st) ==
    IF frameworks = <<>> THEN Diag(FALSE, st)
    ELSE LET d == FrameworkDiag(Head(frameworks)[2], st)
         IN  IF d.raised THEN d ELSE FrameworksDiag(Tail(frameworks), d.status)

\* lines 281-314, one cluster
ClusterDiag(clusterInfo, st) ==
    IF InRaises(clusterInfo) THEN Diag(TRUE, st)
    ELSE IF ~IsDict(clusterInfo)
    THEN Diag(\E key \in {"frameworks", "status", "state"}
                             \cup {statusFields[i] : i \in 1..Len(statusFields)} :
                  In(key, clusterInfo), st)
    ELSE LET d == IF ~HasKey(clusterInfo, "frameworks") THEN Diag(FALSE, st)
                  ELSE IF NoDictMethods(Get(clusterInfo, "frameworks"))
                  THEN Diag(TRUE, st)
                  ELSE FrameworksDiag(Get(clusterInfo, "frameworks").v, st)
         IN  IF d.raised THEN d
             ELSE Diag(FALSE, StatusAfter(clusterInfo, d.status))

RECURSIVE ClustersDiag(_, _)
ClustersDiag(clusters, st) ==
    IF clusters = <<>> THEN Diag(FALSE, st)
    ELSE LET d == ClusterDiag(Head(clusters)[2], st)
         IN  IF d.raised THEN d ELSE ClustersDiag(Tail(clusters), d.status)

\* lines 273-314
EndpointsDiag(body, st) ==
    IF ~IsDict(body) THEN Diag(FALSE, st)
    ELSE IF HasKey(body, "items") /\ LenRaises(Get(body, "items"))
    THEN Diag(TRUE, st)
    ELSE IF ~HasKey(body, "clusters") THEN Diag(FALSE, st)
    ELSE IF NoDictMethods(Get(body, "clusters")) THEN Diag(TRUE, st)
    ELSE ClustersDiag(Get(body, "clusters").v, st)

\* lines 512-513, one framework: frameworkInfo.get, len(models)
FrameworkConfigRaises(frameworkInfo) ==
    \/ NoDictMethods(frameworkInfo)
    \/ LenRaises(GetOr(frameworkInfo, "models", List(<<>>)))

\* lines 509-515, one cluster
ClusterConfigRaises(clusterInfo) ==
    \/ InRaises(clusterInfo)
    \/ /\ In("frameworks", clusterInfo)
       /\ \/ ItemRaises(clusterInfo, "frameworks")
          \/ NoDictMethods(Get(clusterInfo, "frameworks"))
          \/ \E j \in 1..Len(Get(clusterInfo, "frameworks").v) :
                FrameworkConfigRaises(Get(clusterInfo, "frameworks").v[j][2])

\* lines 507-515, under --verbose
VerboseConfigRaises(body) ==
    /\ IsDict(body)
    /\ HasKey(body, "clusters")
    /\ \/ NoDictMethods(Get(body, "clusters"))
       \/ \E i \in 1..Len(Get(body, "clusters").v) :
             ClusterConfigRaises(Get(body, "clusters").v[i][2])

----------------------------------------------------------------------------
(* Job section handling, lines 411-452 *)

\* a section list that also merges the private queued batch
ProcessedSectionsAll ==
    << "running", "queued", "others", "private-batch-running",
       "private-batch-queued" >>

\* lines 417-428: the sections merged into the working list, in this order
ProcessedSections == << "running", "queued", "others", "private-batch-running" >>

\* line 441: the sections whose records --verbose passes to guessFields
DebuggedSections == << "queued", "others", "private-batch-running" >>

\* lines 417-420 and 425-428, one section
SectionItems(body, section) ==
    IF HasKey(body, section) /\ IsList(Get(body, section))
    THEN Get(body, section).v
    ELSE <<>>

\* lines 415-428
MergedSections(body) ==
    Flatten([i \in 1..Len(ProcessedSections) |->
                SectionItems(body, ProcessedSections[i])])

RECURSIVE SumSeq(_)
SumSeq(ns) == IF ns = <<>> THEN 0 ELSE Head(ns) + SumSeq(Tail(ns))

\* line 431: len() raises TypeError on a section that is null or a number
SectionCountRaises(body) ==
    \E i \in 1..Len(ProcessedSections) :
        /\ HasKey(body, ProcessedSections[i])
        /\ LenRaises(Get(body, ProcessedSections[i]))

\* line 431
SectionCount(body) ==
    SumSeq([i \in 1..Len(ProcessedSections) |->
               PyLen(GetOr(body, ProcessedSections[i], List(<<>>)))])

\* the elements "for it in x" visits: the elements of a list, the
\* characters of a str, the keys of a dict
IterItems(x) ==
    CASE IsList(x) -> x.v
      [] IsStr(x)  -> [i \in 1..Len(x.v) |-> Str(<< x.v[i] >>)]
      [] IsDict(x) -> [i \in 1..Len(x.v) |-> Str(KeyText(x.v[i][1]))]
      [] OTHER     -> <<>>

\* what lines 442-445 leave in the globals name and status, and whether
\* guessFields raised on one of the records
Guessed(raised, nm, st) == [raised |-> raised, name |-> nm, status |-> st]

RECURSIVE DebugGuess(_, _, _)
DebugGuess(items, nm, st) ==
    IF items = <<>> THEN Guessed(FALSE, nm, st)
    ELSE IF GuessRaises(Head(items)) THEN Guessed(TRUE, nm, st)
    ELSE DebugGuess(Tail(items), GuessName(Head(items)),
                    GuessStatus(Head(items)))

\* lines 441-445
DebuggedItems(body) ==
    Flatten([i \in 1..Len(DebuggedSections) |->
                SectionItems(body, DebuggedSections[i])])

\* lines 447: the fallback to items is taken
ItemsFallback(body) == MergedSections(body) = <<>> /\ HasKey(body, "items")

\* a fallback to items that is taken only when no processed section is present
JobItemsOfNoSectionKey(body) ==
    IF IsList(body) THEN body.v
    ELSE IF IsDict(body)
    THEN IF (\A i \in 1..Len(ProcessedSections) :
                ~HasKey(body, ProcessedSections[i]))
            /\ HasKey(body, "items")
         THEN IterItems(Get(body, "items"))
         ELSE MergedSections(body)
    ELSE <<>>

\* lines 411-452: jobItems
JobItemsOf(body) ==
    IF IsList(body) THEN body.v
    ELSE IF IsDict(body)
    THEN IF ItemsFallback(body)
         THEN IterItems(Get(body, "items"))
         ELSE MergedSections(body)
    ELSE <<>>

\* lines 411-452: activeCount
ActiveCountOf(body) ==
    IF IsList(body) THEN Len(body.v)
    ELSE IF IsDict(body)
    THEN IF ItemsFallback(body)
         THEN PyLen(Get(body, "items"))
         ELSE SectionCount(body)
    ELSE 0

\* what lines 405-452 leave in the globals, and whether they raise
Collection(raised, items, count, nm, st) ==
    [raised |-> raised, jobItems |-> items, activeCount |-> count,
     name |-> nm, status |-> st]

\* lines 405-452.  debug: VERBOSE; nm, st: the globals name and status
CollectOutcome(body, debug, nm, st) ==
    IF ~IsDict(body)
    THEN Collection(FALSE, JobItemsOf(body), ActiveCountOf(body), nm, st)
    ELSE IF SectionCountRaises(body)                             \* line 431
    THEN Collection(TRUE, MergedSections(body), 0, nm, st)
    ELSE LET g == IF debug THEN DebugGuess(DebuggedItems(body), nm, st)
                  ELSE Guessed(FALSE, nm, st)
         IN  IF g.raised                                         \* line 443
             THEN Collection(TRUE, MergedSections(body), SectionCount(body),
                             g.name, g.status)
             ELSE IF ItemsFallback(body) /\ LenRaises(Get(body, "items"))
             THEN Collection(TRUE, <<>>, SectionCount(body),     \* line 449
                             g.name, g.status)
             ELSE Collection(FALSE, JobItemsOf(body), ActiveCountOf(body),
                             g.name, g.status)

----------------------------------------------------------------------------
(* Job classification, lines 455-486 *)

UnknownJobLit == << "U", "n", "k", "n", "o", "w", "n", " ", "J", "o", "b" >>
LiveLit     == << "l", "i", "v", "e" >>
RunningLit  == << "r", "u", "n", "n", "i", "n", "g" >>
LoadedLit   == << "l", "o", "a", "d", "e", "d" >>
StartingLow == << "s", "t", "a", "r", "t", "i", "n", "g" >>
QueuedLit   == << "q", "u", "e", "u", "e", "d" >>

\* line 464
ClassifiedStatuses == {LiveLit, RunningLit, LoadedLit, StartingLow, QueuedLit}

\* lines 464 and 470: the record contributes names (st is a str)
Collects(nm, st) ==
    /\ Lower(st.v) \in ClassifiedStatuses
    /\ Truthy(nm)
    /\ nm # Str(UnknownJobLit)

\* line 471: ',' in name raises TypeError on a number; line 473: a list or
\* a dict that holds ',' has no split (AttributeError)
SplitRaises(nm) == InRaises(nm) \/ (~IsStr(nm) /\ In(",", nm))

\* lines 456-486: the iteration on this record raises
ClassifyRaises(item) ==
    \/ GuessRaises(item)
    \/ /\ Collects(GuessName(item), GuessStatus(item))
       /\ SplitRaises(GuessName(item))

\* a split that keeps the whitespace around the pieces
CollectedNamesUntrimmed(nm) ==
    IF IsStr(nm) /\ HasComma(nm.v)
    THEN LET pieces == Split(nm.v)
         IN  [i \in 1..Len(pieces) |-> Str(pieces[i])]
    ELSE << nm >>

\* a collection that inserts the name whole, commas included
CollectedNamesWhole(nm) == << nm >>

\* lines 471-486: the names one record contributes, in order
CollectedNames(nm) ==
    IF IsStr(nm) /\ HasComma(nm.v)
    THEN LET pieces == Split(nm.v)
         IN  [i \in 1..Len(pieces) |-> Str(Strip(pieces[i]))]
    ELSE << nm >>

\* a bucket choice that compares the status as written
BucketOfCaseSensitive(st) ==
    IF st.v = StartingLow THEN "starting"
    ELSE IF st.v = QueuedLit THEN "queued"
    ELSE "active"

\* lines 474-486: the bucket one record's names go to
BucketOf(st) ==
    IF Lower(st.v) = StartingLow THEN "starting"
    ELSE IF Lower(st.v) = QueuedLit THEN "queued"
    ELSE "active"

\* the names a record adds to the given bucket
Added(nm, st, bucket) ==
    IF Collects(nm, st) /\ BucketOf(st) = bucket
    THEN CollectedNames(nm)
    ELSE <<>>

----------------------------------------------------------------------------
(* Summary and final listing, lines 373-399 and 521-544 *)

Range(q) == {q[i] : i \in 1..Len(q)}

\* line 376: "modelName not in uniqueModels" hashes the name
DedupRaises(models) == \E i \in 1..Len(models) : Unhashable(models[i].name)

\* the records line 376 accepts before it raises: all of them if it does not
Hashed(models) ==
    IF DedupRaises(models)
    THEN SubSeq(models, 1,
                (CHOOSE i \in 1..Len(models) :
                    /\ Unhashable(models[i].name)
                    /\ \A j \in 1..(i - 1) : ~Unhashable(models[j].name)) - 1)
    ELSE models

\* lines 373-377: first record seen for each name, in first-seen order
RECURSIVE DedupFrom(_, _)
DedupFrom(unique, rest) ==
    IF rest = <<>> THEN unique
    ELSE IF \E i \in 1..Len(unique) : unique[i].name = Head(rest).name
         THEN DedupFrom(unique, Tail(rest))
         ELSE DedupFrom(Append(unique, Head(rest)), Tail(rest))

\* a dedup that lets a later record of a name overwrite the earlier one
RECURSIVE DedupLastFrom(_, _)
DedupLastFrom(unique, rest) ==
    IF rest = <<>> THEN unique
    ELSE IF \E i \in 1..Len(unique) : unique[i].name = Head(rest).name
         THEN DedupLastFrom([i \in 1..Len(unique) |->
                                IF unique[i].name = Head(rest).name
                                THEN Head(rest) ELSE unique[i]],
                            Tail(rest))
         ELSE DedupLastFrom(Append(unique, Head(rest)), Tail(rest))

DedupLastWins(models) == DedupLastFrom(<<>>, models)

Dedup(models) == DedupFrom(<<>>, models)

\* sorted() raises TypeError when it compares null with anything or a str
\* with a number: two or more keys that are not all str or all numbers
SortRaises(S) ==
    /\ Cardinality(S) > 1
    /\ \E x \in S : ~IsStr(x)
    /\ \E x \in S : x.t # "num"

\* lines 383-391, under --verbose: the records of one source are sorted by
\* name
SourceSortRaises(unique) ==
    \E src \in {unique[i].source : i \in 1..Len(unique)} :
        SortRaises({unique[i].name : i \in {j \in 1..Len(unique) :
                                               unique[j].source = src}})

\* a < b for two str or two numbers
ValueLess(a, b) == IF IsStr(a) THEN StrLess(a.v, b.v) ELSE a.v < b.v

\* line 532: sorted() of keys it can order
RECURSIVE SortedNames(_)
SortedNames(S) ==
    IF S = {} THEN <<>>
    ELSE LET least == CHOOSE x \in S : \A y \in S \ {x} : ValueLess(x, y)
         IN  << least >> \o SortedNames(S \ {least})

\* lines 524 and 530-534: set() hashes every name of a bucket
BucketsRaise(active, starting, queued) ==
    \E n \in Range(active) \cup Range(starting) \cup Range(queued) :
        Unhashable(n)

\* a total that counts a name once however many buckets hold it
TotalActiveUnion(active, starting, queued) ==
    Cardinality(Range(active) \cup Range(starting) \cup Range(queued))

\* line 524
TotalActiveOf(active, starting, queued) ==
    Cardinality(Range(active)) + Cardinality(Range(starting))
        + Cardinality(Range(queued))

\* a reconciler that tests the queued bucket first
StatusOfQueuedFirst(nm, active, starting, queued) ==
    IF nm \in Range(queued) THEN "Queued"
    ELSE IF nm \in Range(active) THEN "Active"
    ELSE IF nm \in Range(starting) THEN "Starting"
    ELSE "Stopped"

\* lines 537-544: the status shown for one catalog name
StatusOf(nm, active, starting, queued) ==
    IF nm \in Range(active) THEN "Active"
    ELSE IF nm \in Range(starting) THEN "Starting"
    ELSE IF nm \in Range(queued) THEN "Queued"
    ELSE "Stopped"

\* a listing that also shows the bucket names the catalog does not hold
ListingOfWithStrays(names, active, starting, queued, live) ==
    LET strays == (Range(active) \cup Range(starting) \cup Range(queued))
                      \ Range(names)
        all    == names \o SortedNames(strays)
        lines  == [i \in 1..Len(all) |->
                      << all[i], StatusOf(all[i], active, starting, queued) >>]
        shown(l) == ~(live /\ l[2] = "Stopped")
    IN  SelectSeq(lines, shown)

\* lines 536-544: the printed lines
ListingOf(names, active, starting, queued, live) ==
    LET lines == [i \in 1..Len(names) |->
                     << names[i], StatusOf(names[i], active, starting, queued) >>]
        shown(l) == ~(live /\ l[2] = "Stopped")
    IN  SelectSeq(lines, shown)

----------------------------------------------------------------------------
(* The module body as a state machine *)

\* lines 162-166: the candidate URLs, in order
modelEndpoints == << "/list-endpoints", "/models", "/v1/models" >>

JobsUrl == "/sophia/jobs"                 \* line 253
EndpointsUrl == "/list-endpoints"         \* line 270

\* the state before line 92: VERBOSE is False (line 49), nothing else is bound
Init ==
    /\ pc = "args"
    /\ liveOnly = FALSE
    /\ verbose = FALSE
    /\ accessToken = FALSE
    /\ exitCode = -1
    /\ requests = <<>>
    /\ guessFieldsBound = FALSE
    /\ candIdx = 0
    /\ allModels = <<>>
    /\ respData = Unbound
    /\ respModels = <<>>
    /\ availableModels = <<>>
    /\ jobs = Unbound
    /\ endpoints = Unbound
    /\ uniqueModels = <<>>
    /\ jobItems = <<>>
    /\ activeCount = 0
    /\ jobIdx = 0
    /\ activeModels = <<>>
    /\ startingModels = <<>>
    /\ queuedModels = <<>>
    /\ it = Unbound
    /\ name = Unbound
    /\ status = Unbound
    /\ totalActive = -1
    /\ listing = <<>>

\* an uncaught exception: the interpreter prints the traceback and exits
\* with status 1
Raise == pc' = "raised" /\ exitCode' = 1

\* lines 87-91: the option strings of the parser; argparse adds the help
\* option itself
OptionStrings ==
    { "--verbose", "-v", "--live-only", "-l", "--help", "-h" }

\* the attribute of args an option string sets; "help" for the help action
Dest(option) ==
    IF option \in { "--verbose", "-v" } THEN "verbose"
    ELSE IF option \in { "--live-only", "-l" } THEN "live_only"
    ELSE "help"

\* the i-th character of a word
Char(w, i) == SubSeq(w, i, i)

\* c in w
HasChar(w, c) == \E i \in 1..Len(w) : Char(w, i) = c

\* w.split('=', 1): the text before the first "=" and the text after it
BeforeEq(w) ==
    SubSeq(w, 1, (CHOOSE i \in 1..Len(w) :
                     /\ Char(w, i) = "="
                     /\ \A j \in 1..(i - 1) : Char(w, j) # "=") - 1)
AfterEq(w) == SubSeq(w, Len(BeforeEq(w)) + 2, Len(w))

\* s.startswith(p)
StartsWith(s, p) == Len(p) <= Len(s) /\ SubSeq(s, 1, Len(p)) = p

\* an option a word is read as: the option string and the explicit argument
\* that came in the same word, <<>> for none
OptionTuple(option, explicit) == [option |-> option, explicit |-> explicit]

\* argparse._get_option_tuples: a word of two dashes is an abbreviation of
\* the long options its text before "=" begins; a word of one dash is a
\* short option followed by its argument
OptionTuples(w) ==
    IF Char(w, 2) = "-"
    THEN LET prefix   == IF HasChar(w, "=") THEN BeforeEq(w) ELSE w
             explicit == IF HasChar(w, "=") THEN << AfterEq(w) >> ELSE <<>>
         IN  { OptionTuple(o, explicit) :
                   o \in { o \in OptionStrings : StartsWith(o, prefix) } }
    ELSE { OptionTuple(o, << SubSeq(w, 3, Len(w)) >>) :
               o \in { o \in OptionStrings : o = SubSeq(w, 1, 2) } }
         \cup { OptionTuple(o, <<>>) :
                    o \in { o \in OptionStrings :
                                o # SubSeq(w, 1, 2) /\ StartsWith(o, w) } }

\* argparse._parse_optional on one word: "option" with its tuple,
\* "ambiguous" (the parser reports the error at once), or "extra": a word
\* that is left over, taken for a positional or for an option the parser
\* does not have
ParseOptional(w) ==
    IF w = "" \/ Char(w, 1) # "-"
    THEN [kind |-> "extra"]
    ELSE IF w \in OptionStrings
    THEN [kind |-> "option", tuple |-> OptionTuple(w, <<>>)]
    ELSE IF Len(w) = 1
    THEN [kind |-> "extra"]
    ELSE IF HasChar(w, "=") /\ BeforeEq(w) \in OptionStrings
    THEN [kind |-> "option",
          tuple |-> OptionTuple(BeforeEq(w), << AfterEq(w) >>)]
    ELSE IF Cardinality(OptionTuples(w)) > 1
    THEN [kind |-> "ambiguous"]
    ELSE IF Cardinality(OptionTuples(w)) = 1
    THEN [kind |-> "option", tuple |-> CHOOSE t \in OptionTuples(w) : TRUE]
    ELSE [kind |-> "extra"]

\* consume_optional rejects the word: a flag takes no argument, so an
\* explicit argument is accepted only after a short option, when it is not
\* empty and each of its characters is a short option again
ConsumeRaises(t) ==
    /\ t.explicit # <<>>
    /\ \/ Char(t.option, 2) = "-"
       \/ t.explicit[1] = ""
       \/ \E i \in 1..Len(t.explicit[1]) :
             ("-" \o Char(t.explicit[1], i)) \notin OptionStrings

\* the attributes the options of one accepted word set
Dests(t) ==
    { Dest(t.option) }
        \cup IF t.explicit = <<>> THEN {}
             ELSE { Dest("-" \o Char(t.explicit[1], i)) :
                        i \in 1..Len(t.explicit[1]) }

\* the words argparse reads as options: those before the first "--"
OptionWords(argv) ==
    { i \in 1..Len(argv) : \A j \in 1..i : argv[j] # "--" }

\* the words that are options of the parser
Options(argv) ==
    { i \in OptionWords(argv) : ParseOptional(argv[i]).kind = "option" }

\* the words at which parsing stops: a rejected option, or the help action
Stops(argv) ==
    { i \in Options(argv) :
          \/ ConsumeRaises(ParseOptional(argv[i]).tuple)
          \/ "help" \in Dests(ParseOptional(argv[i]).tuple) }

\* line 92, parse_args(): an ambiguous abbreviation is an error as soon as
\* the words are classified; then the options act in order, and the first
\* that is rejected ends the run (status 2), the first that asks for help
\* ends it too (status 0); words left over, "--" and what follows it
\* included, are an error once the line is read (status 2)
ArgsOutcome(argv) ==
    IF \E i \in OptionWords(argv) : ParseOptional(argv[i]).kind = "ambiguous"
    THEN "error"
    ELSE IF Stops(argv) # {}
    THEN LET first == CHOOSE i \in Stops(argv) : \A j \in Stops(argv) : i <= j
         IN  IF ConsumeRaises(ParseOptional(argv[first]).tuple)
             THEN "error" ELSE "help"
    ELSE IF Options(argv) # 1..Len(argv)
    THEN "error"
    ELSE "parsed"

\* the value parse_args gives the attribute dest of args
Flag(argv, dest) ==
    \E i \in Options(argv) : dest \in Dests(ParseOptional(argv[i]).tuple)

\* lines 92-94 on the command line argv
ParseArgsOn(argv) ==
    /\ pc = "args"
    /\ CASE ArgsOutcome(argv) = "help" ->
              /\ pc' = "help"
              /\ exitCode' = 0
              /\ UNCHANGED argVars
         [] ArgsOutcome(argv) = "error" ->
              /\ pc' = "usage"
              /\ exitCode' = 2
              /\ UNCHANGED argVars
         [] OTHER ->
              /\ pc' = "token"
              /\ verbose' = Flag(argv, "verbose")
              /\ liveOnly' = Flag(argv, "live_only")
              /\ UNCHANGED exitCode
    /\ UNCHANGED << accessToken, requests, guessFieldsBound, catVars, fetchVars,
                    uniqueModels, jobVars, bucketVars, loopVars, outVars >>

\* lines 98-102: the token provider returns a token
TokenFromProvider ==
    /\ pc = "token"
    /\ accessToken' = TRUE
    /\ pc' = "catalog"
    /\ UNCHANGED << argVars, exitCode, requests, guessFieldsBound, catVars,
                    fetchVars, uniqueModels, jobVars, bucketVars, loopVars,
                    outVars >>

\* lines 103-110: the provider fails, ALCF_ACCESS_TOKEN is set and non-empty
TokenFromEnvironment ==
    /\ pc = "token"
    /\ accessToken' = TRUE
    /\ pc' = "catalog"
    /\ UNCHANGED << argVars, exitCode, requests, guessFieldsBound, catVars,
                    fetchVars, uniqueModels, jobVars, bucketVars, loopVars,
                    outVars >>

\* a missing credential that is reported but does not stop the script
NoCredentialContinues ==
    /\ pc = "token"
    /\ pc' = "catalog"
    /\ UNCHANGED << argVars, accessToken, exitCode, requests, guessFieldsBound,
                    catVars, fetchVars, uniqueModels, jobVars, bucketVars,
                    loopVars, outVars >>

\* lines 103-109: the provider fails, the variable is unset or empty: sys.exit(1)
NoCredential ==
    /\ pc = "token"
    /\ exitCode' = 1
    /\ pc' = "exited"
    /\ UNCHANGED << argVars, accessToken, requests, guessFieldsBound, catVars,
                    fetchVars, uniqueModels, jobVars, bucketVars, loopVars,
                    outVars >>

\* lines 170-240: one iteration of the candidate loop whose request is
\* answered with a body.  When safeGet raises on the body (line 137) data is
\* not assigned; when reading the body raises, the records read so far stay
\* in models and are dropped (line 238).
CandidateReturns(Bodies) ==
    /\ pc = "catalog"
    /\ candIdx < Len(modelEndpoints)
    /\ \E body \in Bodies :
          IF SafeGetRaises(body)
          THEN UNCHANGED << respData, respModels, allModels >>
          ELSE /\ respData' = body
               /\ respModels' = NormalizeBody(body, guessFieldsBound).models
               /\ allModels' = allModels \o BodyRecords(body, guessFieldsBound)
    /\ requests' = Append(requests, modelEndpoints[candIdx + 1])
    /\ candIdx' = candIdx + 1
    /\ UNCHANGED << pc, argVars, accessToken, exitCode, guessFieldsBound,
                    availableModels, fetchVars, uniqueModels, jobVars,
                    bucketVars, loopVars, outVars >>

\* a failed candidate whose exception is not caught
CandidateFailsRaises ==
    /\ pc = "catalog"
    /\ candIdx < Len(modelEndpoints)
    /\ requests' = Append(requests, modelEndpoints[candIdx + 1])
    /\ Raise
    /\ UNCHANGED << argVars, accessToken, guessFieldsBound, catVars, fetchVars,
                    uniqueModels, jobVars, bucketVars, loopVars, outVars >>

\* a failed candidate that ends the loop
CandidateFailsEndsLoop ==
    /\ pc = "catalog"
    /\ candIdx < Len(modelEndpoints)
    /\ requests' = Append(requests, modelEndpoints[candIdx + 1])
    /\ candIdx' = Len(modelEndpoints)
    /\ UNCHANGED << pc, argVars, accessToken, exitCode, guessFieldsBound,
                    allModels, respData, respModels, availableModels,
                    fetchVars, uniqueModels, jobVars, bucketVars, loopVars,
                    outVars >>

\* lines 170-173 and 238-240: one iteration whose request fails (timeout,
\* connection error, HTTP error status, invalid JSON)
CandidateFails ==
    /\ pc = "catalog"
    /\ candIdx < Len(modelEndpoints)
    /\ requests' = Append(requests, modelEndpoints[candIdx + 1])
    /\ candIdx' = candIdx + 1
    /\ UNCHANGED << pc, argVars, accessToken, exitCode, guessFieldsBound,
                    allModels, respData, respModels, availableModels,
                    fetchVars, uniqueModels, jobVars, bucketVars, loopVars,
                    outVars >>

\* lines 242 and 249: getAvailableModels returns, its locals are gone
CatalogReturns ==
    /\ pc = "catalog"
    /\ candIdx = Len(modelEndpoints)
    /\ availableModels' = allModels
    /\ respData' = Unbound
    /\ respModels' = <<>>
    /\ pc' = "jobs"
    /\ UNCHANGED << argVars, accessToken, exitCode, requests, guessFieldsBound,
                    candIdx, allModels, fetchVars, uniqueModels, jobVars,
                    bucketVars, loopVars, outVars >>

\* line 253 and lines 256-266: the jobs query is answered with a body.
\* safeGet raises on a body whose items has no len (line 137): jobs is not
\* assigned.  Nothing catches that, nor what line 261 raises.
JobsReturns(Bodies) ==
    /\ pc = "jobs"
    /\ \E body \in Bodies :
          IF SafeGetRaises(body)
          THEN UNCHANGED jobs /\ Raise
          ELSE /\ jobs' = body
               /\ IF JobsDiagRaises(body)
                  THEN Raise
                  ELSE pc' = "endpoints" /\ UNCHANGED exitCode
    /\ requests' = Append(requests, JobsUrl)
    /\ UNCHANGED << argVars, accessToken, guessFieldsBound, catVars, endpoints,
                    uniqueModels, jobVars, bucketVars, loopVars, outVars >>

\* a failed jobs query that is logged and passed over
JobsFailsContinues ==
    /\ pc = "jobs"
    /\ requests' = Append(requests, JobsUrl)
    /\ pc' = "endpoints"
    /\ UNCHANGED << argVars, accessToken, exitCode, guessFieldsBound, catVars,
                    fetchVars, uniqueModels, jobVars, bucketVars, loopVars,
                    outVars >>

\* a failed jobs query that is repeated once before giving up
JobsFailsRetriesOnce ==
    /\ pc = "jobs"
    /\ requests' = requests \o << JobsUrl, JobsUrl >>
    /\ Raise
    /\ UNCHANGED << argVars, accessToken, guessFieldsBound, catVars, fetchVars,
                    uniqueModels, jobVars, bucketVars, loopVars, outVars >>

\* lines 253 and 143-158: the request fails, safeGet re-raises, nothing
\* catches it
JobsFails ==
    /\ pc = "jobs"
    /\ requests' = Append(requests, JobsUrl)
    /\ Raise
    /\ UNCHANGED << argVars, accessToken, guessFieldsBound, catVars, fetchVars,
                    uniqueModels, jobVars, bucketVars, loopVars, outVars >>

\* line 270 and lines 273-314: the catalog query is answered with a body;
\* its diagnostics assign the global status and may raise
EndpointsReturns(Bodies) ==
    /\ pc = "endpoints"
    /\ \E body \in Bodies :
          IF SafeGetRaises(body)
          THEN UNCHANGED << endpoints, status >> /\ Raise
          ELSE /\ endpoints' = body
               /\ status' = EndpointsDiag(body, status).status
               /\ IF EndpointsDiag(body, status).raised
                  THEN Raise
                  ELSE pc' = "defs" /\ UNCHANGED exitCode
    /\ requests' = Append(requests, EndpointsUrl)
    /\ UNCHANGED << argVars, accessToken, guessFieldsBound, catVars, jobs,
                    uniqueModels, jobVars, bucketVars, it, name, outVars >>

\* line 270: the request fails, safeGet re-raises, nothing catches it
EndpointsFails ==
    /\ pc = "endpoints"
    /\ requests' = Append(requests, EndpointsUrl)
    /\ Raise
    /\ UNCHANGED << argVars, accessToken, guessFieldsBound, catVars, fetchVars,
                    uniqueModels, jobVars, bucketVars, loopVars, outVars >>

\* lines 316 and 353: the def statements bind guessFields and formatStatus
DefineFunctions ==
    /\ pc = "defs"
    /\ guessFieldsBound' = TRUE
    /\ pc' = "dedup"
    /\ UNCHANGED << argVars, accessToken, exitCode, requests, catVars,
                    fetchVars, uniqueModels, jobVars, bucketVars, loopVars,
                    outVars >>

\* lines 373-399: the dedup loop stops at a name it cannot hash; under
\* --verbose the records of each source are then sorted by name
DedupModels ==
    /\ pc = "dedup"
    /\ uniqueModels' = Dedup(Hashed(availableModels))
    /\ IF \/ DedupRaises(availableModels)
          \/ verbose /\ SourceSortRaises(Dedup(availableModels))
       THEN Raise
       ELSE pc' = "sections" /\ UNCHANGED exitCode
    /\ UNCHANGED << argVars, accessToken, requests, guessFieldsBound, catVars,
                    fetchVars, jobVars, bucketVars, loopVars, outVars >>

\* lines 405-452
CollectJobItems ==
    /\ pc = "sections"
    /\ LET c == CollectOutcome(jobs, verbose, name, status)
       IN  /\ jobItems' = c.jobItems
           /\ activeCount' = c.activeCount
           /\ name' = c.name
           /\ status' = c.status
           /\ IF c.raised THEN Raise
              ELSE pc' = "classify" /\ UNCHANGED exitCode
    /\ UNCHANGED << argVars, accessToken, requests, guessFieldsBound, catVars,
                    fetchVars, uniqueModels, jobIdx, bucketVars, it, outVars >>

\* lines 455-486: one iteration of the classification loop.  When
\* guessFields raises, name and status keep their values; when line 471 or
\* 473 raises, the buckets keep theirs.
ClassifyJob ==
    /\ pc = "classify"
    /\ jobIdx < Len(jobItems)
    /\ LET item == jobItems[jobIdx + 1]
       IN  /\ it' = item
           /\ IF GuessRaises(item)
              THEN UNCHANGED << name, status, bucketVars, jobIdx >> /\ Raise
              ELSE LET nm == guessFields(item)[1]
                       st == guessFields(item)[2]
                   IN  /\ name' = nm
                       /\ status' = st
                       /\ IF ClassifyRaises(item)
                          THEN UNCHANGED << bucketVars, jobIdx >> /\ Raise
                          ELSE /\ activeModels' =
                                      activeModels \o Added(nm, st, "active")
                               /\ startingModels' =
                                      startingModels \o Added(nm, st, "starting")
                               /\ queuedModels' =
                                      queuedModels \o Added(nm, st, "queued")
                               /\ jobIdx' = jobIdx + 1
                               /\ UNCHANGED << pc, exitCode >>
    /\ UNCHANGED << argVars, accessToken, requests, guessFieldsBound, catVars,
                    fetchVars, uniqueModels, jobItems, activeCount, outVars >>

\* lines 488-525: the loop is over; under --verbose the catalog body is
\* walked again (lines 507-515); the summary counts are printed
Summary ==
    /\ pc = "classify"
    /\ jobIdx = Len(jobItems)
    /\ IF \/ verbose /\ VerboseConfigRaises(endpoints)
          \/ BucketsRaise(activeModels, startingModels, queuedModels)
       THEN UNCHANGED totalActive /\ Raise
       ELSE /\ totalActive' =
                   TotalActiveOf(activeModels, startingModels, queuedModels)
            /\ pc' = "listing"
            /\ UNCHANGED exitCode
    /\ UNCHANGED << argVars, accessToken, requests, guessFieldsBound, catVars,
                    fetchVars, uniqueModels, jobVars, bucketVars, loopVars,
                    listing >>

CatalogNames == {uniqueModels[i].name : i \in 1..Len(uniqueModels)}

\* lines 528-574: the model lines are printed and the script ends; sorted()
\* (line 532) raises TypeError on keys it cannot order, which nothing catches
FinalListing ==
    /\ pc = "listing"
    /\ IF SortRaises(CatalogNames)
       THEN UNCHANGED listing /\ Raise
       ELSE /\ listing' = ListingOf(SortedNames(CatalogNames), activeModels,
                                    startingModels, queuedModels, liveOnly)
            /\ exitCode' = 0
            /\ pc' = "done"
    /\ UNCHANGED << argVars, accessToken, requests, guessFieldsBound, catVars,
                    fetchVars, uniqueModels, jobVars, bucketVars, loopVars,
                    totalActive >>

----------------------------------------------------------------------------
(* Inputs: the command lines and the response bodies the environment may
   send *)

\* longest command line
MaxArgs == 2

\* the command line words the model tries: the two flags in both spellings,
\* abbreviations of the long options, short flags in one word, the help
\* option alone and in a word with a flag, flags with an explicit argument,
\* the end-of-options word, an ambiguous abbreviation, an option and a
\* positional the parser does not know
ArgTokens ==
    { "-v", "--verbose", "--verb", "--v", "-l", "--live-only", "--l", "-lv",
      "-vl", "-vv", "-h", "--help", "--h", "-vh", "-vx", "-v=l", "-v=",
      "--verbose=1", "--", "--=x", "--bogus", "x", "" }

ArgLists == UNION { [1..n -> ArgTokens] : n \in 0..MaxArgs }

\* line 92
ParseArgs == \E argv \in ArgLists : ParseArgsOn(argv)

\* longest Models list of a generated job record
MaxModels == 3

\* longest list of the running section of a generated jobs body
MaxJobs == 2

ModelName(i) == << "m", DigitChars[i + 1] >>
M1 == ModelName(1)
M2 == ModelName(2)
M3 == ModelName(3)
M9 == ModelName(9)
ListedNames == << "a", ",", " ", "b", " ", ",", "c" >>                 \* "a, b ,c"
PairedNames == << "m", "1", ",", "m", "2" >>                        \* "m1,m2"
BatchName   == << "p", "1" >>                                        \* "p1"
ItemName    == << "i", "1" >>                                        \* "i1"
RunningCaps == << "R", "u", "n", "n", "i", "n", "g" >>           \* "Running"
RunningPad  == << " ", "R", "u", "n", "n", "i", "n", "g", " " >> \* " Running "
QueuedCaps  == << "Q", "u", "e", "u", "e", "d" >>                \* "Queued"
OfflineCaps == << "O", "f", "f", "l", "i", "n", "e" >>           \* "Offline"
LiveCaps    == << "L", "i", "v", "e" >>                          \* "Live"
VllmLit     == << "v", "l", "l", "m" >>
SophiaLit   == << "s", "o", "p", "h", "i", "a" >>
SophiaPath  == << "/", "s", "o", "p", "h", "i", "a" >>                \* "/sophia"
ChatPath    == << "/", "v", "1", "/", "c", "h", "a", "t", "/" >>   \* "/v1/chat/"
SoonLit     == << "s", "o", "o", "n" >>                               \* "soon"
RunningCr   == << "r", "u", "n", "n", "i", "n", "g", "\r" >>        \* "running\r"
CrListed    == << "m", "1", ",", "\r", "m", "2", "\f" >>            \* "m1,\rm2\f"

Field(key, value) == << << key, value >> >>

\* the first k elements of q
Prefix(q, k) == SubSeq(q, 1, IF k < Len(q) THEN k ELSE Len(q))

(* Job records: every combination of the optional fields guessFields reads *)

NameFields ==
    { <<>>, Field("model", Str(M1)), Field("name", Str(<<>>)) }

StatusFields ==
    { <<>>, Field("status", Str(RunningPad)), Field("lifecycle", Str(OfflineCaps)) }

ModelsValues ==
    { Str(M1), Str(ListedNames), Str(UnknownJobLit), Str(<<>>), Null }
        \cup { List([i \in 1..k |-> Str(ModelName(i))]) : k \in 0..MaxModels }

ModelsFields == { <<>> } \cup { Field("Models", v) : v \in ModelsValues }

PlaceFields ==
    { <<>>, Field("Framework", Str(VllmLit)) \o Field("Cluster", Str(SophiaLit)) }

ModelStatusFields == { <<>>, Field("Model Status", Str(LoadedLit)) }

JobStateFields == { <<>>, Field("Job State", Str(QueuedCaps)) }

StartTimeFields == { <<>>, Field("Estimated Start Time", Str(SoonLit)) }

JobRecords ==
    { Dict(n \o s \o m \o p \o ms \o js \o est) :
        n \in NameFields, s \in StatusFields, m \in ModelsFields,
        p \in PlaceFields, ms \in ModelStatusFields, js \in JobStateFields,
        est \in StartTimeFields }

\* a job of one string-valued Models field and a Job State
Job(models, state) == Dict(Field("Models", models) \o Field("Job State", Str(state)))

RunningSection ==
    << Job(Str(PairedNames), RunningCaps),
       Job(List(<< Str(M2) >>), QueuedLit),
       Job(Str(M1), StartingLit) >>

QueuedSection  == << Job(Str(M1), QueuedCaps) >>
OthersSection  == << Dict(Field("model", Str(M2)) \o Field("status", Str(StartingLit))) >>
PrivateRunning == << Job(Str(ListedNames), LoadedLit) >>
PrivateQueued  == << Job(Str(BatchName), RunningLit), Job(Str(M3), QueuedLit) >>
ItemsSection   == << Dict(Field("model", Str(ItemName)) \o Field("status", Str(LiveCaps))) >>

\* a section is absent or holds one of the given lists
SectionFields(key, lists) == { <<>> } \cup { Field(key, List(l)) : l \in lists }

SectionedBodies ==
    { Dict(r \o q \o o \o pr \o pq \o i) :
        r  \in SectionFields("running",
                             {Prefix(RunningSection, k) : k \in 0..MaxJobs}),
        q  \in SectionFields("queued", {<<>>, QueuedSection}),
        o  \in SectionFields("others", {OthersSection}),
        pr \in SectionFields("private-batch-running", {PrivateRunning}),
        pq \in SectionFields("private-batch-queued", {PrivateQueued}),
        i  \in SectionFields("items", {<<>>, ItemsSection}) }

\* job records of no usable Models value that name one place field only,
\* or one of them empty
PartialPlaceRecords ==
    { Dict(Field("Models", List(<<>>)) \o Field("Framework", Str(VllmLit))
           \o Field("Job State", Str(RunningLit))),
      Dict(Field("Models", Null) \o Field("Framework", Str(<<>>))
           \o Field("Cluster", Str(SophiaLit))
           \o Field("Job State", Str(RunningLit))) }

\* job records whose Models list has an element that itself holds a comma
CommaListRecords ==
    { Dict(Field("Models", List(<< Str(<< "a", ",", "b" >>), Str(M2) >>))
           \o Field("Job State", Str(RunningLit))),
      Dict(Field("Models", List(<< Str(PairedNames) >>))
           \o Field("Job State", Str(QueuedCaps))) }

\* a running job that lists three models in one string
ListedRecords == { Job(Str(ListedNames), RunningLit) }

\* job records whose fields are not the strings the script expects
OddRecords ==
    { Dict(Field("model", Str(M1)) \o Field("status", Str(RunningCr))),
      Dict(Field("Models", Str(CrListed)) \o Field("Job State", Str(RunningLit))),
      Dict(Field("Models", List(<< List(<< Str(<< "a" >>) >>), Str(M2) >>))
           \o Field("Job State", Str(RunningLit))),
      Dict(Field("Models", Null) \o Field("Framework", List(<< Str(VllmLit) >>))
           \o Field("Cluster", Str(SophiaLit))
           \o Field("Job State", Str(RunningLit))),
      Dict(Field("model", Num(5)) \o Field("status", Str(RunningLit))),
      Dict(Field("model", Num(0)) \o Field("status", Str(RunningLit))),
      Dict(Field("model", Dict(Field("k", Str(<< "v" >>))))
           \o Field("status", Str(QueuedLit))),
      Dict(Field("model", List(<< Str(<< "," >>) >>))
           \o Field("status", Str(LiveLit))),
      Dict(Field("model", Str(M1)) \o Field("status", Num(5))),
      Str(M1),
      Null }

\* jobs bodies whose sections or items are not lists of records
OddJobsBodies ==
    { Dict(Field("running", Null)),
      Dict(Field("running", List(RunningSection)) \o Field("queued", Num(3))),
      Dict(Field("running", Str(M1)) \o Field("items", List(ItemsSection))),
      Dict(Field("queued", List(<< Dict(Field("model", Str(M2))
                                        \o Field("status", Str(QueuedLit))),
                                   Dict(Field("model", Str(M1))
                                        \o Field("status", Num(5))) >>))),
      Dict(Field("items", Null)),
      Dict(Field("items", List(<< Str(M1) >>))),
      Dict(Field("items", Str(M1))),
      Dict(Field("items", Dict(Field("k", Num(1))))),
      Dict(Field("items", Str(<<>>))),
      Str(M1),
      Num(7),
      Null }

\* jobs bodies of the main specification
JobsBodies ==
    { Dict(Field("running", List(<< r >>))) :
        r \in JobRecords \cup PartialPlaceRecords \cup CommaListRecords
                  \cup ListedRecords \cup OddRecords }
        \cup SectionedBodies
        \cup OddJobsBodies
        \cup { List(Prefix(RunningSection, k)) : k \in 0..MaxJobs }

\* a catalog body of one cluster and one framework with the given entry
OneFramework(frameworkInfo) ==
    Dict(Field("clusters", Dict(Field("sophia",
        Dict(Field("frameworks", Dict(Field("vllm", frameworkInfo))))))))

\* the bodies the catalog query of line 270 is answered with in the main
\* specification: one its diagnostics read to the end, one they raise on
EndpointsBodies ==
    { OneFramework(Dict(Field("status", Str(<< "u", "p" >>))
                        \o Field("models", List(<< Str(M1) >>)))),
      Dict(Field("clusters", Null)) }

\* a framework entry: its models and its other fields
FrameworkInfo(models, more) ==
    Dict(Field("models", List(models)) \o more)

\* a cluster entry of one framework
ClusterInfo(baseUrl, frameworkName, frameworkInfo) ==
    Dict(Field("base_url", Str(baseUrl))
         \o Field("frameworks", Dict(Field(frameworkName, frameworkInfo))))

ChatEndpoint == Field("endpoints", Dict(Field("chat", Str(ChatPath))))

\* a clusters-shaped catalog of one cluster and one framework
ClustersBody(models) ==
    Dict(Field("clusters", Dict(Field("sophia",
        ClusterInfo(SophiaPath, "vllm", FrameworkInfo(models, ChatEndpoint))))))

\* catalog bodies of the main specification
MainCatalog ==
    ClustersBody(<< Str(M1), Str(M2), Str(<< "a" >>), Str(<< "b" >>),
                    Str(BatchName), Str(ItemName), Str(M9) >>)

CatalogBodies == { MainCatalog }

(* Catalog bodies of every shape, and of several shapes at once *)

\* longest endpoints list of a generated catalog body
MaxEndpoints == 3

PolarisPath == << "/", "p", "o", "l", "a", "r", "i", "s", "/" >>          \* "/polaris/"

\* two clusters that both serve m1; the second has no chat endpoint
TwoClusters ==
    Dict(Field("clusters", Dict(
        Field("sophia", ClusterInfo(SophiaPath, "vllm",
            FrameworkInfo(<< Str(M1), Str(M2) >>, ChatEndpoint)))
        \o Field("polaris", ClusterInfo(PolarisPath, "infinity",
            FrameworkInfo(<< Str(M1), Str(M3) >>, <<>>))))))

EndpointItems ==
    << Dict(Field("model", Str(M2)) \o Field("name", Str(M3))),
       Dict(Field("name", Str(M1))),
       Dict(Field("status", Str(LiveCaps))),
       Dict(Field("model", Str(<<>>)) \o Field("name", Str(M3))),
       Dict(Field("model", Null)),
       Str(M3) >>

\* the last item differs from the first in the case of a letter only
DataItems ==
    << Dict(Field("id", Str(M3))), Dict(Field("name", Str(M2))),
       Dict(Field("id", Str(<< "M", "3" >>))) >>

\* clusters wins over endpoints and data, also when it yields nothing
ClustersFirst(clusters) ==
    Dict(Field("data", List(DataItems))
         \o Field("endpoints", List(Prefix(EndpointItems, 1)))
         \o Field("clusters", clusters))

\* items whose model or id key is present with an empty or null value
EmptyModelItems ==
    << Dict(Field("model", Str(<<>>)) \o Field("name", Str(M3))),
       Dict(Field("model", Null)) >>

EmptyIdItems ==
    << Dict(Field("id", Str(<<>>)) \o Field("name", Str(M2))),
       Dict(Field("id", Null)),
       Dict(Field("name", Null)) >>

\* catalog bodies that are not the mappings the script expects, or hold
\* values of other types than it expects
OddCatalogBodies ==
    { Str(<< "a", "b", "c" >>),
      Str(<< "x" >> \o KeyText("clusters")),
      Str(KeyText("models") \o KeyText("data")),
      Num(7),
      List(<< Str(KeyText("clusters")) >>),
      Dict(Field("items", Null) \o Field("data", List(DataItems))),
      Dict(Field("clusters", Dict(
          Field("sophia", ClusterInfo(SophiaPath, "vllm",
              FrameworkInfo(<< Str(M1) >>, ChatEndpoint)))
          \o Field("polaris", Null)))),
      Dict(Field("clusters", Dict(Field("sophia",
          Dict(Field("frameworks", List(<<>>))))))),
      OneFramework(Null),
      OneFramework(Str(KeyText("models"))),
      OneFramework(FrameworkInfo(<< Str(M1) >>, Field("endpoints", Null))),
      OneFramework(FrameworkInfo(<<>>, Field("endpoints", Null))),
      OneFramework(FrameworkInfo(<< Str(M1) >>,
          Field("endpoints", Dict(Field("chat", List(<< Str(<< "x" >>) >>)))))),
      OneFramework(FrameworkInfo(<< List(<< Str(<< "a" >>) >>), Str(M1) >>, <<>>)),
      Dict(Field("data", List(<< Dict(Field("id", Str(<< "a" >>))),
                                 Dict(Field("id", Num(7))) >>))),
      Dict(Field("data", List(<< Dict(Field("id", Num(7))),
                                 Dict(Field("id", Num(3))) >>))) }

RichCatalogBodies ==
    { TwoClusters,
      Dict(Field("endpoints", List(EmptyModelItems))),
      Dict(Field("data", List(EmptyIdItems))),
      ClustersFirst(Dict(Field("sophia", ClusterInfo(SophiaPath, "vllm",
          FrameworkInfo(<< Str(M9) >>, <<>>))))),
      ClustersFirst(EmptyDict),
      ClustersFirst(List(<<>>)),
      Dict(Field("endpoints", Str(M1)) \o Field("data", List(DataItems))),
      Dict(Field("data", List(DataItems))),
      Dict(Field("foo", Num(1))),
      Dict(Field("endpoints", Str(M1)) \o Field("data", EmptyDict)),
      List(<< Dict(Field("model", Str(M1))) >>),
      List(<< Str(M2) >>),
      List(<<>>),
      Null }
        \cup OddCatalogBodies
        \cup { Dict(Field("data", List(DataItems))
                    \o Field("endpoints", List(Prefix(EndpointItems, k)))) :
                 k \in 0..MaxEndpoints }

\* the bodies the catalog query of line 270 is answered with in the catalog
\* specification
RichEndpointsBodies ==
    { Dict(Field("clusters", Dict(Field("sophia",
          Dict(Field("status", Str(<< "u", "p" >>))
               \o Field("frameworks", Dict(Field("vllm",
                      Dict(Field("state", Str(<< "o", "f", "f" >>))
                           \o Field("models", Null)))))))))),
      Dict(Field("clusters", Dict(Field("sophia", Null)))),
      OneFramework(Str(KeyText("status"))),
      OneFramework(Str(<< "a", "b", "c" >>)),
      Dict(Field("items", Num(3))) }

\* the jobs bodies of the catalog specification
FewJobsBodies ==
    { Dict(Field("running", List(<< Job(Str(PairedNames), RunningCaps) >>))
           \o Field("queued", List(<< Job(Str(M3), QueuedCaps) >>))),
      List(<< Job(Str(M3), StartingLit) >>) }

----------------------------------------------------------------------------
(* Specifications *)

Next ==
    \/ ParseArgs
    \/ TokenFromProvider
    \/ TokenFromEnvironment
    \/ NoCredential
    \/ CandidateReturns(CatalogBodies)
    \/ CandidateFails
    \/ CatalogReturns
    \/ JobsReturns(JobsBodies)
    \/ JobsFails
    \/ EndpointsReturns(EndpointsBodies)
    \/ EndpointsFails
    \/ DefineFunctions
    \/ DedupModels
    \/ CollectJobItems
    \/ ClassifyJob
    \/ Summary
    \/ FinalListing

\* the run over rich jobs bodies and one catalog
Spec == Init /\ [][Next]_vars

NextCatalog ==
    \/ ParseArgs
    \/ TokenFromProvider
    \/ TokenFromEnvironment
    \/ NoCredential
    \/ CandidateReturns(RichCatalogBodies)
    \/ CandidateFails
    \/ CatalogReturns
    \/ JobsReturns(FewJobsBodies)
    \/ JobsFails
    \/ EndpointsReturns(RichEndpointsBodies)
    \/ EndpointsFails
    \/ DefineFunctions
    \/ DedupModels
    \/ CollectJobItems
    \/ ClassifyJob
    \/ Summary
    \/ FinalListing

\* the run over rich catalog bodies and few jobs bodies
SpecCatalog == Init /\ [][NextCatalog]_vars

----------------------------------------------------------------------------
(* Claims *)

Active   == Range(activeModels)
Starting == Range(startingModels)
Queued   == Range(queuedModels)

\* the names of some bucket
Bucketed == Active \cup Starting \cup Queued

\* the lines of the listing that show the given name
LinesOf(n) == {l \in Range(listing) : l[1] = n}

\* C1: every deduplicated catalog name is reported Active if it is in the
\* active bucket, else Starting if in starting, else Queued if in queued, else
\* Stopped (a Stopped line is not printed under --live-only).
C1_ReconcilerPrecedence ==
    pc = "done" =>
        \A i \in 1..Len(uniqueModels) :
            LET n == uniqueModels[i].name
                expected ==
                    CASE n \in Active -> "Active"
                      [] n \notin Active /\ n \in Starting -> "Starting"
                      [] n \notin Active /\ n \notin Starting /\ n \in Queued
                            -> "Queued"
                      [] OTHER -> "Stopped"
            IN  IF liveOnly /\ expected = "Stopped"
                THEN LinesOf(n) = {}
                ELSE LinesOf(n) = {<< n, expected >>}

\* a catalog name in both active and queued is shown Active, and a catalog
\* name in no bucket is shown Stopped
C1_Witness ==
    /\ pc = "done"
    /\ \E n \in CatalogNames :
          n \in Active /\ n \in Queued /\ << n, "Active" >> \in Range(listing)
    /\ \E n \in CatalogNames :
          /\ n \notin Bucketed
          /\ << n, "Stopped" >> \in Range(listing)

\* the catalog has been deduplicated
Deduplicated == pc \in {"sections", "classify", "listing", "done"}

\* the index of the earliest record of availableModels with the given name
FirstIndexOf(n) ==
    CHOOSE k \in 1..Len(availableModels) :
        /\ availableModels[k].name = n
        /\ \A j \in 1..(k - 1) : availableModels[j].name # n

\* C2: the deduplicated catalog holds exactly one record per distinct name of
\* the concatenated records, and it is the earliest record with that name.
C2_DedupFirstSeenWins ==
    Deduplicated =>
        /\ \A i, j \in 1..Len(uniqueModels) :
              i # j => uniqueModels[i].name # uniqueModels[j].name
        /\ CatalogNames = {availableModels[k].name : k \in 1..Len(availableModels)}
        /\ \A i \in 1..Len(uniqueModels) :
              uniqueModels[i] = availableModels[FirstIndexOf(uniqueModels[i].name)]

\* two records of one name and different clusters collapsed to the first,
\* and two names that differ in case only were both kept
C2_Witness ==
    /\ pc = "done"
    /\ {Str(M3), Str(<< "M", "3" >>)} \subseteq CatalogNames
    /\ \E i, j \in 1..Len(availableModels) :
          /\ i < j
          /\ availableModels[i].name = availableModels[j].name
          /\ availableModels[i].cluster # availableModels[j].cluster
          /\ \A k \in 1..(i - 1) :
                availableModels[k].name # availableModels[i].name
          /\ availableModels[i] \in Range(uniqueModels)
          /\ availableModels[j] \notin Range(uniqueModels)

\* the number of buckets that hold the name
BucketsHolding(n) ==
    (IF n \in Active THEN 1 ELSE 0) + (IF n \in Starting THEN 1 ELSE 0)
        + (IF n \in Queued THEN 1 ELSE 0)

RECURSIVE CountedPerBucket(_)
CountedPerBucket(S) ==
    IF S = {} THEN 0
    ELSE LET n == CHOOSE x \in S : TRUE
         IN  BucketsHolding(n) + CountedPerBucket(S \ {n})

BucketsDisjoint ==
    /\ Active \cap Starting = {}
    /\ Active \cap Queued = {}
    /\ Starting \cap Queued = {}

\* C8: the total active count counts every name once per bucket that holds
\* it: it is the size of the union of the buckets when they are pairwise
\* disjoint and exceeds it otherwise.
C8_TotalActiveSumsBuckets ==
    totalActive # -1 =>
        /\ totalActive = CountedPerBucket(Bucketed)
        /\ BucketsDisjoint => totalActive = Cardinality(Bucketed)
        /\ ~BucketsDisjoint => totalActive > Cardinality(Bucketed)

\* a name in two buckets is counted twice
C8_Witness ==
    /\ totalActive # -1
    /\ ~BucketsDisjoint
    /\ totalActive > Cardinality(Bucketed)

\* the classification loop has read the record it holds: guessFields
\* returned, name and status are what it gave
Processed == IsDict(it) /\ ~GuessRaises(it)

\* the record has none of the direct name keys and has a Models key
JobShaped(item) ==
    /\ Keys(item) \cap {"model", "name", "endpoint", "id"} = {}
    /\ HasKey(item, "Models")

\* C3: a job-shape record that contains an Estimated Start Time key gets the
\* status Starting whatever other status value it holds, and its names go to
\* the starting bucket.
C3_EstimatedStartForcesStarting ==
    (Processed /\ JobShaped(it) /\ HasKey(it, "Estimated Start Time")) =>
        /\ status = Str(StartingLit)
        /\ (Truthy(name) /\ name # Str(UnknownJobLit)) =>
               Range(CollectedNames(name)) \subseteq Starting

\* the positions of the commas of s
CommaPositions(s) == {i \in 1..Len(s) : s[i] = ","}

\* the position of the i-th comma of s; 0 before the first, Len(s)+1 after
\* the last
CommaAt(s, i) ==
    IF i = 0 THEN 0
    ELSE IF i > Cardinality(CommaPositions(s)) THEN Len(s) + 1
    ELSE CHOOSE p \in CommaPositions(s) :
             Cardinality({q \in CommaPositions(s) : q < p}) = i - 1

\* the text between the (i-1)-th and the i-th comma of s
Segment(s, i) == SubSeq(s, CommaAt(s, i - 1) + 1, CommaAt(s, i) - 1)

\* piece is seg without the whitespace at its two ends
IsTrimOf(piece, seg) ==
    \E a \in 1..(Len(seg) + 1), b \in 0..Len(seg) :
        /\ piece = SubSeq(seg, a, b)
        /\ \A j \in 1..(a - 1) : seg[j] \in Whitespace
        /\ \A j \in (b + 1)..Len(seg) : seg[j] \in Whitespace
        /\ piece # <<>> =>
              /\ piece[1] \notin Whitespace
              /\ piece[Len(piece)] \notin Whitespace

\* names holds, in order, the trimmed text between the commas of s
IsSplitOf(names, s) ==
    /\ Len(names) = Cardinality(CommaPositions(s)) + 1
    /\ \A i \in 1..Len(names) :
          names[i].t = "str" /\ IsTrimOf(names[i].v, Segment(s, i))

\* the step is an iteration of the classification loop that reaches its end
ClassifyStep == pc = "classify" /\ jobIdx' = jobIdx + 1

\* the names the step appended to each bucket
NewActive   == SubSeq(activeModels', Len(activeModels) + 1, Len(activeModels'))
NewStarting == SubSeq(startingModels', Len(startingModels) + 1, Len(startingModels'))
NewQueued   == SubSeq(queuedModels', Len(queuedModels) + 1, Len(queuedModels'))

\* every bucket keeps what it held
BucketsExtended ==
    /\ SubSeq(activeModels', 1, Len(activeModels)) = activeModels
    /\ SubSeq(startingModels', 1, Len(startingModels)) = startingModels
    /\ SubSeq(queuedModels', 1, Len(queuedModels)) = queuedModels

\* the lower-cased status is one of the five the loop classifies
Classified(st) ==
    Lower(st.v) \in {LiveLit, RunningLit, LoadedLit, StartingLow, QueuedLit}

\* C4: when a classified job's name contains a comma, the trimmed text
\* between the commas is appended, piece by piece, to the one bucket the job's
\* status selects, and nothing to the other two.
C4_CommaSplitPerJob ==
    [][ (/\ ClassifyStep
         /\ name'.t = "str" /\ name' # Str(UnknownJobLit) /\ HasComma(name'.v)
         /\ Classified(status'))
        => /\ BucketsExtended
           /\ IF Lower(status'.v) = StartingLow
              THEN /\ IsSplitOf(NewStarting, name'.v)
                   /\ NewActive = <<>> /\ NewQueued = <<>>
              ELSE IF Lower(status'.v) = QueuedLit
              THEN /\ IsSplitOf(NewQueued, name'.v)
                   /\ NewActive = <<>> /\ NewStarting = <<>>
              ELSE /\ IsSplitOf(NewActive, name'.v)
                   /\ NewStarting = <<>> /\ NewQueued = <<>> ]_vars

\* Models "a, b ,c" with Job State "running" gave the active names a, b, c
C4_Witness ==
    /\ it = Job(Str(ListedNames), RunningLit)
    /\ activeModels = << Str(<< "a" >>), Str(<< "b" >>), Str(<< "c" >>) >>
    /\ startingModels = <<>>
    /\ queuedModels = <<>>

\* the summarised name of a Models list of two or more names
SummarisedName(item) ==
    LET ms == Get(item, "Models").v
    IN  Str(PyStr(ms[1]) \o << " ", "(", "+" >> \o Decimal(Len(ms) - 1)
            \o << " ", "o", "t", "h", "e", "r", "s", ")" >>)

\* C5: a job whose Models field is a list of two or more names puts each of
\* the names into the job's bucket, and never the summarised name.
C5_ListModelsExploded ==
    (/\ Processed /\ JobShaped(it)
     /\ IsList(Get(it, "Models")) /\ Len(Get(it, "Models").v) >= 2) =>
        /\ SummarisedName(it) \notin Bucketed
        /\ Lower(status.v) \in {LiveLit, RunningLit, LoadedLit} =>
              Range(Get(it, "Models").v) \subseteq Active
        /\ Lower(status.v) = StartingLow =>
              Range(Get(it, "Models").v) \subseteq Starting
        /\ Lower(status.v) = QueuedLit =>
              Range(Get(it, "Models").v) \subseteq Queued

\* the names the records of a list contribute: a record guessFields cannot
\* read contributes none
NamesOfRecords(records) ==
    UNION { IF /\ IsDict(records[i])
               /\ ~GuessRaises(records[i])
               /\ Truthy(GuessName(records[i]))
            THEN Range(CollectedNames(GuessName(records[i])))
            ELSE {} : i \in 1..Len(records) }

\* the names of the records listed under a key of the jobs body
NamesUnder(body, key) ==
    IF HasKey(body, key) /\ IsList(Get(body, key))
    THEN NamesOfRecords(Get(body, key).v)
    ELSE {}

\* the names that occur in private-batch-queued records only
OnlyPrivateQueued(body) ==
    NamesUnder(body, "private-batch-queued")
        \ UNION { NamesUnder(body, key) :
                    key \in {"running", "queued", "others",
                             "private-batch-running", "items"} }

\* C6: for a jobs body that is a mapping, a name that occurs only in
\* private-batch-queued records is in no bucket.
C6_PrivateQueuedExcluded ==
    IsDict(jobs) => OnlyPrivateQueued(jobs) \cap Bucketed = {}

\* a finished run whose body had private-batch-queued records beside merged
\* sections, with names of its own
C6_Witness ==
    /\ pc = "done"
    /\ IsDict(jobs)
    /\ OnlyPrivateQueued(jobs) # {}
    /\ HasKey(jobs, "running") /\ ~HasKey(jobs, "items")
    /\ Bucketed # {}

\* the values Python takes for false: null, "", 0, [] and {}
EmptyValues == { Null, Str(<<>>), Num(0), List(<<>>), EmptyDict }

\* what C7 says of one iteration that reaches its end, given which names are
\* skipped
ClassifiesByStatus(skipped) ==
    /\ BucketsExtended
    /\ Len(NewActive) + Len(NewStarting) + Len(NewQueued) > 0 =>
          \/ NewActive = <<>> /\ NewStarting = <<>>
          \/ NewActive = <<>> /\ NewQueued = <<>>
          \/ NewStarting = <<>> /\ NewQueued = <<>>
    /\ IF skipped
       THEN NewActive = <<>> /\ NewStarting = <<>> /\ NewQueued = <<>>
       ELSE LET added == IF IsStr(name') /\ HasComma(name'.v)
                         THEN CollectedNames(name')
                         ELSE << name' >>
            IN  CASE Lower(status'.v) \in {LiveLit, RunningLit, LoadedLit} ->
                       NewActive = added /\ NewStarting = <<>> /\ NewQueued = <<>>
                  [] Lower(status'.v) = StartingLow ->
                       NewStarting = added /\ NewActive = <<>> /\ NewQueued = <<>>
                  [] Lower(status'.v) = QueuedLit ->
                       NewQueued = added /\ NewActive = <<>> /\ NewStarting = <<>>
                  [] OTHER ->
                       NewActive = <<>> /\ NewStarting = <<>> /\ NewQueued = <<>>

\* C7 as stated: a record is skipped when its name is null or "Unknown Job",
\* and otherwise classified by its lower-cased status.
C7_SkipsNullOrUnknownJob ==
    [][ ClassifyStep =>
            ClassifiesByStatus(name' = Null \/ name' = Str(UnknownJobLit)) ]_vars

\* the loop is about to read a record
ClassifyAttempt == pc = "classify" /\ jobIdx < Len(jobItems)

\* the iteration ends the run with an uncaught exception and changes no
\* bucket
IterationFails ==
    /\ pc' = "raised"
    /\ exitCode' = 1
    /\ UNCHANGED << activeModels, startingModels, queuedModels, jobIdx >>

\* a name the loop can neither split nor take whole: a number, or a list or
\* a mapping that holds ","
Unsplittable(nm) ==
    \/ nm.t = "num"
    \/ nm.t = "list" /\ Str(<< "," >>) \in Range(nm.v)
    \/ nm.t = "dict" /\ "," \in Keys(nm)

\* C7 as amended: a record guessFields can read is skipped when its name is
\* an empty value or "Unknown Job"; otherwise live, running and loaded go to
\* the active bucket, starting to the starting bucket, queued to the queued
\* bucket and any other status to no bucket; a record changes at most one
\* bucket.  A record guessFields cannot read, and a classified record whose
\* name cannot be split or taken whole, ends the run and changes no bucket.
C7_SkipsEmptyOrUnknownJob ==
    [][ ClassifyAttempt =>
            IF GuessRaises(jobItems[jobIdx + 1])
            THEN IterationFails
            ELSE IF /\ Classified(status')
                    /\ name' \notin EmptyValues \cup {Str(UnknownJobLit)}
                    /\ Unsplittable(name')
            THEN IterationFails
            ELSE /\ ClassifyStep
                 /\ pc' = "classify"
                 /\ ClassifiesByStatus(\/ name' \in EmptyValues
                                       \/ name' = Str(UnknownJobLit)) ]_vars

\* a record whose name is the empty string was skipped although its status
\* is running
C7_Witness ==
    /\ Processed
    /\ name = Str(<<>>)
    /\ Lower(status.v) = RunningLit
    /\ pc = "done"
    /\ Bucketed = {}

\* the shape of the body that supplies its records
WinningShape(body) ==
    IF IsList(body) THEN "direct_list"
    ELSE IF HasKey(body, "clusters") THEN "clusters"
    ELSE IF HasKey(body, "endpoints") /\ IsList(Get(body, "endpoints"))
    THEN "endpoints"
    ELSE IF HasKey(body, "data") /\ IsList(Get(body, "data")) THEN "data"
    ELSE "none"

\* the number of records the winning shape holds
WinningCount(body) ==
    CASE WinningShape(body) = "endpoints" ->
             Cardinality({i \in 1..Len(Get(body, "endpoints").v) :
                             Get(body, "endpoints").v[i].t = "dict"})
      [] WinningShape(body) = "data" ->
             Cardinality({i \in 1..Len(Get(body, "data").v) :
                             Get(body, "data").v[i].t = "dict"})
      [] OTHER -> 0

\* C9: one body is read in exactly one shape, the first that matches in the
\* order clusters, endpoints list, data list, top-level list; the others
\* contribute nothing, also when the winning shape yields no record.
C9_FirstShapeWins ==
    (respData # Unbound /\ (IsDict(respData) \/ IsList(respData))) =>
        /\ \A i \in 1..Len(respModels) :
              respModels[i].source = WinningShape(respData)
        /\ WinningShape(respData) \in {"endpoints", "data"} =>
              Len(respModels) = WinningCount(respData)

\* a body whose clusters mapping is empty yields nothing although it also
\* holds an endpoints list and a data list
C9_Witness ==
    /\ respData = ClustersFirst(EmptyDict)
    /\ respModels = <<>>
    /\ EndpointsRecords(respData) # <<>>
    /\ DataRecords(respData) # <<>>

\* C10: a body that is a list contributes one record, of source direct_list,
\* for every dict item whose name guessFields resolves.
C10_DirectListContributes ==
    (respData # Unbound /\ IsList(respData)) =>
        /\ Len(respModels) =
               Cardinality({i \in 1..Len(respData.v) :
                               /\ respData.v[i].t = "dict"
                               /\ Truthy(GuessName(respData.v[i]))})
        /\ \A i \in 1..Len(respModels) :
              /\ respModels[i].source = "direct_list"
              /\ respModels[i].cluster = "default"
              /\ respModels[i].framework = "default"
              /\ respModels[i].chat_url = Null

\* a body of none of the four shapes: a mapping with no clusters key, no
\* endpoints list and no data list
Unmatched(body) ==
    /\ IsDict(body)
    /\ ~HasKey(body, "clusters")
    /\ ~(HasKey(body, "endpoints") /\ IsList(Get(body, "endpoints")))
    /\ ~(HasKey(body, "data") /\ IsList(Get(body, "data")))

\* one iteration of the candidate loop
CandidateStep == pc = "catalog" /\ candIdx' = candIdx + 1

\* a body that is neither a mapping nor a list: null, a number or a string
Scalar(body) == body # Unbound /\ ~IsDict(body) /\ ~IsList(body)

\* C11: a candidate whose body has none of the four shapes yields no record
\* and raises nothing: the accumulated catalog is unchanged and the loop goes
\* on to the remaining candidates.  A body that is no mapping and no list
\* adds no record and stops nothing either, also when the shape tests raise
\* on it inside the candidate's try.
C11_UnmatchedBodyYieldsNothing ==
    [][ /\ (CandidateStep /\ Unmatched(respData')) =>
              /\ ~NormalizeBody(respData', guessFieldsBound).raised
              /\ respModels' = <<>>
              /\ allModels' = allModels
              /\ pc' = "catalog"
              /\ exitCode' = -1
        /\ (CandidateStep /\ Scalar(respData')) =>
              /\ respModels' = <<>>
              /\ allModels' = allModels
              /\ pc' = "catalog"
              /\ exitCode' = -1 ]_vars

\* the second candidate answered {"foo": 1} after the first gave records, and
\* the third is still to be asked
C11_Witness ==
    /\ pc = "catalog"
    /\ candIdx = 2
    /\ respData = Dict(Field("foo", Num(1)))
    /\ respModels = <<>>
    /\ allModels # <<>>

\* C12: the three candidates are requested one after the other in the order
\* /list-endpoints, /models, /v1/models whatever the earlier ones did; a
\* candidate that fails, at the request or while its body is read, adds
\* nothing, one that is read to the end adds exactly the records of its
\* body; the catalog handed on is the accumulated concatenation and is not
\* changed afterwards.
C12_CandidatesIndependent ==
    [][ /\ (pc = "catalog" /\ candIdx < Len(modelEndpoints)) =>
              /\ pc' = "catalog"
              /\ candIdx' = candIdx + 1
              /\ requests' = Append(requests, modelEndpoints[candIdx + 1])
              /\ exitCode' = -1
              /\ \/ /\ allModels' = allModels
                    /\ respData' = respData
                    /\ respModels' = respModels
                 \/ /\ NormalizeBody(respData', guessFieldsBound).raised
                    /\ allModels' = allModels
                 \/ /\ ~NormalizeBody(respData', guessFieldsBound).raised
                    /\ respModels' =
                           NormalizeBody(respData', guessFieldsBound).models
                    /\ allModels' = allModels \o respModels'
        /\ (pc = "catalog" /\ pc' # "catalog") =>
              /\ candIdx = Len(modelEndpoints)
              /\ requests = modelEndpoints
              /\ availableModels' = allModels
        /\ pc # "catalog" => availableModels' = availableModels ]_vars

\* no candidate has returned (the loop's data was never assigned), yet each
\* of the three was requested, in order
C12_Witness ==
    /\ pc = "catalog"
    /\ candIdx = Len(modelEndpoints)
    /\ respData = Unbound
    /\ requests = modelEndpoints
    /\ allModels = <<>>

\* the jobs query has returned: a request was made after it
JobsFetched == Len(requests) > Len(modelEndpoints) + 1

\* C13 as stated: with a credential and a jobs body in hand, no failure of a
\* catalog endpoint, /list-endpoints included, ends the run before the
\* listing.
C13_NoCatalogFailureFatal ==
    (accessToken /\ JobsFetched) => pc # "raised"

\* C13 as amended: a failure of one of the three candidates never ends the
\* run, which goes on to the next candidate or to the jobs query; the query
\* of /list-endpoints made after the jobs query ends the run when it fails,
\* with exit code 1 and no listing.
C13_OnlyFullCatalogQueryFatal ==
    [][ /\ pc = "catalog" => (pc' \in {"catalog", "jobs"} /\ exitCode' = -1)
        /\ (pc = "endpoints" /\ endpoints' = Unbound) =>
              /\ pc' = "raised"
              /\ exitCode' = 1
              /\ requests' = Append(requests, EndpointsUrl)
              /\ listing' = <<>>
              /\ totalActive' = -1 ]_vars

\* all three candidates failed (the only catalog body of this specification
\* holds records) and the run still printed its listing
C13_Witness ==
    /\ pc = "done"
    /\ exitCode = 0
    /\ availableModels = <<>>
    /\ endpoints # Unbound
    /\ totalActive > 0

\* C14 as stated: no URL is requested twice in one run.
C14_EachUrlAtMostOnce ==
    \A i, j \in 1..Len(requests) : i # j => requests[i] # requests[j]

\* the fetch attempts of a complete run, in order
FetchOrder == modelEndpoints \o << JobsUrl, EndpointsUrl >>

\* C14 as amended: the requests of a run are the first attempts of the fixed
\* sequence /list-endpoints, /models, /v1/models, /sophia/jobs,
\* /list-endpoints, each made once: nothing is requested again after a
\* failure, and only /list-endpoints is requested twice, by two different
\* attempts.
C14_EachAttemptOnce ==
    /\ Len(requests) <= Len(FetchOrder)
    /\ requests = SubSeq(FetchOrder, 1, Len(requests))

\* a finished run made five requests, the first and the last to one URL
C14_Witness ==
    /\ pc = "done"
    /\ Len(requests) = 5
    /\ requests[1] = requests[5]
    /\ availableModels = <<>>

\* C15 as stated: a run that has ended has exit code 1 when it held no
\* credential, and then made no request, and exit code 0 in every other case.
C15_ExitOneOnlyWithoutCredential ==
    exitCode # -1 =>
        IF pc = "exited" THEN exitCode = 1 /\ requests = <<>>
        ELSE exitCode = 0

\* C15 as amended: the exit code is 0 exactly when the run reached its end,
\* with the summary and the listing printed, also with no model and no job,
\* or printed the help text; it is 2 when the command line is rejected; it is
\* 1 when no credential is available, and then no request was made, and when
\* an error that nothing catches ended the run, as a failed jobs query does.
C15_ExitCodeByTermination ==
    /\ exitCode \in {-1, 0, 1, 2}
    /\ exitCode = 0 <=> pc \in {"done", "help"}
    /\ exitCode = 2 <=> pc = "usage"
    /\ exitCode = 1 <=> pc \in {"exited", "raised"}
    /\ pc = "exited" <=> (exitCode = 1 /\ ~accessToken)
    /\ ~accessToken => requests = <<>>
    /\ pc = "done" => totalActive >= 0
    /\ pc \in {"help", "usage"} => ~accessToken

\* a run that found no model and no job ended with exit code 0
C15_Witness ==
    /\ pc = "done"
    /\ exitCode = 0
    /\ uniqueModels = <<>>
    /\ jobItems = <<>>
    /\ totalActive = 0
    /\ listing = <<>>

\* the jobs query was made and bound no body: safeGet raised
JobsFetchFailed ==
    /\ Len(requests) > Len(modelEndpoints)
    /\ requests[Len(modelEndpoints) + 1] = JobsUrl
    /\ jobs = Unbound

\* C16: a jobs query that fails ends the run there: no later request, exit
\* code 1, and no deduplicated catalog, job list, bucket, summary count or
\* listing is ever produced.
C16_JobsFailureFatal ==
    JobsFetchFailed =>
        /\ pc = "raised"
        /\ exitCode = 1
        /\ Len(requests) = Len(modelEndpoints) + 1
        /\ uniqueModels = <<>>
        /\ jobItems = <<>>
        /\ jobIdx = 0
        /\ activeModels = <<>>
        /\ startingModels = <<>>
        /\ queuedModels = <<>>
        /\ totalActive = -1
        /\ listing = <<>>

\* the catalog was read, then the jobs query failed
C16_Witness ==
    /\ JobsFetchFailed
    /\ pc = "raised"
    /\ availableModels # <<>>

\* the working list of job records has been built
Collected == pc \in {"classify", "listing", "done"}

\* none of the four processed sections is a key of the body
NoSectionKey(body) ==
    \A i \in 1..Len(ProcessedSections) : ~HasKey(body, ProcessedSections[i])

\* no processed section of the body holds a job record
AllSectionsEmpty(body) ==
    \A i \in 1..Len(ProcessedSections) :
        SectionItems(body, ProcessedSections[i]) = <<>>

\* C17 as stated: for a mapping body, items is the source of the job records
\* exactly when no processed section is a key of the body and items is; with
\* a section present, even an empty one, the records are the merged
\* sections.
C17_ItemsOnlyWithoutSectionKeys ==
    (Collected /\ IsDict(jobs)) =>
        jobItems = IF NoSectionKey(jobs) /\ HasKey(jobs, "items")
                   THEN IterItems(Get(jobs, "items"))
                   ELSE MergedSections(jobs)

\* C17 as amended: for a mapping body, items is the source of the job records
\* exactly when the body has items and its processed sections hold no record
\* at all (each is absent, empty or no list); otherwise the records are the
\* merged sections and items is ignored.
C17_ItemsWhenSectionsHoldNothing ==
    (Collected /\ IsDict(jobs)) =>
        /\ (AllSectionsEmpty(jobs) /\ HasKey(jobs, "items")) =>
               /\ jobItems = IterItems(Get(jobs, "items"))
               /\ activeCount = Len(jobItems)
        /\ ~(AllSectionsEmpty(jobs) /\ HasKey(jobs, "items")) =>
               jobItems = MergedSections(jobs)

\* a body with an empty running section and an items list: the item was
\* classified
C17_Witness ==
    /\ pc = "done"
    /\ IsDict(jobs)
    /\ HasKey(jobs, "running")
    /\ AllSectionsEmpty(jobs)
    /\ jobItems = ItemsSection
    /\ activeModels = << Str(ItemName) >>

\* the name C18 gives an item: the value under key when present and
\* non-empty, otherwise the value under name, otherwise "Unknown"
ClaimedName(item, key) ==
    IF HasKey(item, key) /\ Truthy(Get(item, key)) THEN Get(item, key)
    ELSE IF HasKey(item, "name") THEN Get(item, "name")
    ELSE Str(UnknownLit)

\* C18: a body read in the endpoints (resp. data) shape yields one record
\* per item, named by the item's model (resp. id) when present and
\* non-empty, else by its name, else "Unknown"; the name is a string, cluster
\* and framework are "default" and chat_url is null.
C18_NameFromModelOrName ==
    (respData # Unbound /\ IsDict(respData)
        /\ WinningShape(respData) \in {"endpoints", "data"}) =>
        LET shape == WinningShape(respData)
            key   == IF shape = "endpoints" THEN "model" ELSE "id"
            items == DictItems(Get(respData, shape).v)
        IN  /\ Len(respModels) = Len(items)
            /\ \A i \in 1..Len(respModels) :
                  /\ respModels[i].name = ClaimedName(items[i], key)
                  /\ IsStr(respModels[i].name)
                  /\ respModels[i].cluster = "default"
                  /\ respModels[i].framework = "default"
                  /\ respModels[i].chat_url = Null

\* the names the listing shows
ShownNames == {listing[i][1] : i \in 1..Len(listing)}

\* C19: the listing of a finished run shows catalog names only, each at most
\* once and with one of the four statuses, Stopped exactly for the names of
\* no bucket; without --live-only every catalog name is shown, with it the
\* catalog names of no bucket are left out and nothing else; a bucket name
\* the catalog lacks is never shown, and the counts do not depend on the
\* flag.
C19_ListingKeyedByCatalog ==
    pc = "done" =>
        /\ ShownNames \subseteq CatalogNames
        /\ \A i, j \in 1..Len(listing) :
              listing[i][1] = listing[j][1] => i = j
        /\ \A i \in 1..Len(listing) :
              /\ listing[i][2] \in {"Active", "Starting", "Queued", "Stopped"}
              /\ listing[i][2] = "Stopped" <=> listing[i][1] \notin Bucketed
        /\ ~liveOnly => ShownNames = CatalogNames
        /\ liveOnly => ShownNames = CatalogNames \cap Bucketed
        /\ totalActive = Cardinality(Active) + Cardinality(Starting)
                             + Cardinality(Queued)

\* a --live-only run: a stopped catalog name is left out, a live one is
\* shown, and the active name c, which the catalog lacks, is not shown
C19_Witness ==
    /\ pc = "done"
    /\ liveOnly
    /\ Str(<< "c" >>) \in Active \ CatalogNames
    /\ Str(<< "a" >>) \in ShownNames
    /\ Str(M9) \in CatalogNames \ ShownNames

\* the value of the first of the keys that holds a non-empty value, or null
RECURSIVE FirstNonEmpty(_, _)
FirstNonEmpty(item, keys) ==
    IF keys = <<>> THEN Null
    ELSE IF HasKey(item, Head(keys)) /\ Truthy(Get(item, Head(keys)))
    THEN Get(item, Head(keys))
    ELSE FirstNonEmpty(item, Tail(keys))

DirectNameKeys == << "model", "name", "endpoint", "id" >>
DirectStatusKeys == << "status", "state", "endpoint_status", "lifecycle" >>

\* Framework and Cluster are both present and non-empty
PlaceGiven(item) ==
    /\ HasKey(item, "Framework") /\ Truthy(Get(item, "Framework"))
    /\ HasKey(item, "Cluster") /\ Truthy(Get(item, "Cluster"))

\* "<Framework> on <Cluster>"
PlaceName(item) ==
    Str(PyStr(Get(item, "Framework")) \o << " ", "o", "n", " " >>
        \o PyStr(Get(item, "Cluster")))

\* C20: for a record with no non-empty direct name key and a Models key, the
\* name is the single element of a one-element list, "<first> (+<n-1>
\* others)" for a longer list, the string itself for a string, and otherwise
\* "<Framework> on <Cluster>" when both are given, else null; for a record
\* with a non-empty direct name key, name and status come from the direct
\* keys alone, whatever Models, Model Status, Job State and Estimated Start
\* Time hold.
C20_JobShapeFallbackName ==
    Processed =>
        LET models == Get(it, "Models")
            direct == FirstNonEmpty(it, DirectNameKeys)
        IN  /\ (direct = Null /\ HasKey(it, "Models")) =>
                  name = CASE IsList(models) /\ Len(models.v) = 1 -> models.v[1]
                           [] IsList(models) /\ Len(models.v) > 1 ->
                                  SummarisedName(it)
                           [] IsStr(models) -> models
                           [] OTHER -> IF PlaceGiven(it) THEN PlaceName(it)
                                       ELSE Null
            /\ direct # Null =>
                  /\ name = direct
                  /\ status = Str(Strip(FirstNonEmpty(it, DirectStatusKeys).v))

\* a running job with an empty Models list, a Framework and a Cluster was
\* classified under the name "vllm on sophia"
C20_Witness ==
    /\ Processed
    /\ Get(it, "Models") = List(<<>>)
    /\ name = Str(<< "v", "l", "l", "m", " ", "o", "n", " ",
                     "s", "o", "p", "h", "i", "a" >>)
    /\ name \in Active

\* the name holds a comma: as a character of a string, an element of a list
\* or a key of a mapping
HoldsComma(n) ==
    CASE n.t = "str"  -> HasComma(n.v)
      [] n.t = "list" -> Str(<< "," >>) \in Range(n.v)
      [] n.t = "dict" -> "," \in Keys(n)
      [] OTHER        -> FALSE

\* C21: at every point of the classification and after it, no name of the
\* active, starting or queued bucket holds a comma: a name with commas enters
\* as its split pieces only.
C21_NoCommaInBuckets ==
    \A n \in Bucketed : ~HoldsComma(n)

\* a job whose Models list starts with "a,b": the summary "a,b (+1 others)"
\* was split, its two pieces are in the active bucket
C21_Witness ==
    /\ pc = "done"
    /\ it \in CommaListRecords
    /\ HasComma(name.v)
    /\ name = SummarisedName(it)
    /\ activeModels = << Str(<< "a" >>),
                         Str(<< "b", " ", "(", "+", "1", " ", "o", "t", "h",
                                "e", "r", "s", ")" >>) >>

====
